---- MODULE Spec2Model ----
(***************************************************************************)
(* Model of the task manager server of src/index.ts (class                 *)
(* TaskManagerServer): requests holding tasks holding optional subtasks,   *)
(* the done / approved gating, the subtask actions of manageSubtasks and   *)
(* the load / save cycle every public method runs.                         *)
(*                                                                         *)
(* Identifiers are kept structured instead of as text:                     *)
(*   request id  "req-<n>"                      is the number n            *)
(*   task id     "req-" + requestId + "-task-<k>"  is <<n, k>>             *)
(*   subtask id  taskId + "-subtask-<m>"        is <<n, k, m>>             *)
(* The free texts no method ever reads (originalRequest, splitDetails,     *)
(* completedDetails) are left out of the records.                          *)
(***************************************************************************)
EXTENDS Integers, Sequences, FiniteSets, TLC

\* ------------------------------------------------------------------ bounds
\* Cap of the request counter (the n of "req-<n>") in Spec.
MaxRequests == 1
\* Cap of the task number (the k of "-task-<k>") in Spec.
MaxTaskNum == 2
\* Cap of the global subtask counter (the m of "-subtask-<m>") in Spec.
MaxSubtaskNum == 2
\* Caps of the request counter and of the task number in SpecDeep and SpecPct.
NarrowMaxRequests == 1
NarrowMaxTaskNum == 1
\* Cap of the global subtask counter in SpecDeep.
DeepMaxSubtaskNum == 4
\* Cap of the global subtask counter in SpecContent.
ContentMaxSubtaskNum == 3
\* Cap of the global subtask counter in SpecFault.
FaultMaxSubtaskNum == 2
\* Caps of the request counter and of the global subtask counter in SpecIds.
IdsMaxRequests == 2
IdsMaxSubtaskNum == 3

\* Cap of the clock and of the global subtask counter in SpecClock.
MaxClock == 2
ClockMaxSubtaskNum == 3

\* Caps of the request counter and of the global subtask counter in SpecFrame.
FrameMaxRequests == 2
FrameMaxSubtaskNum == 2

\* Cap of the global subtask counter in SpecProgress, and the time at which
\* its caller stops arranging the request.
ProgressMaxSubtaskNum == 2
SetupTime == 1

\* Cap of the global subtask counter in SpecMany.
ManyMaxSubtaskNum == 51
\* How many calls overlap in SpecRace.
MaxClients == 2
\* Cap of the global subtask counter in SpecPct, and how many list lengths
\* below the cap its callers use.
PctMaxSubtasks == 40
PctSizes == 5

\* ------------------------------------------------------- program constants
\* SubtaskSchema / validateSubtaskData: longest content accepted.
MaxContentLength == 500
\* ManageSubtasksSchema / break_down: most subtasks in one call.
MaxBatch == 50

\* ---------------------------------------------------------------- values
Statuses == {"pending", "in_progress", "completed", "cancelled"}

\* completionPercentage?: number -- NoPct stands for the absent field.
NoPct == -1
\* completedAt?: string -- NoTime stands for the absent field.
NoTime == -1
\* An absent identifier in a result.
NoId == <<>>

\* ------------------------------------------------------------- sequences
Range(s) == {s[i] : i \in 1..Len(s)}

\* Array.prototype.filter
RECURSIVE SelectSeqIdx(_, _, _)
SelectSeqIdx(s, keep, i) ==
  IF i > Len(s) THEN <<>>
  ELSE (IF i \in keep THEN <<s[i]>> ELSE <<>>) \o SelectSeqIdx(s, keep, i + 1)

\* Array.prototype.splice(i, 1)
RemoveAt(s, i) == SubSeq(s, 1, i - 1) \o SubSeq(s, i + 1, Len(s))

\* Array.prototype.findIndex and find, given the positions that pass the
\* test: the first of them, 1-based; 0 when there is none (the code's -1).
FindIndex(matching) ==
  IF matching = {} THEN 0 ELSE CHOOSE i \in matching : \A j \in matching : i <= j

\* Math.max(...xs) over a set of naturals, 0 for the empty set as the callers
\* write it (xs.length > 0 ? Math.max(...xs) : 0).
MaxOrZero(S) == IF S = {} THEN 0 ELSE CHOOSE x \in S : \A y \in S : y <= x

\* ------------------------------------------------ IEEE-754 double arithmetic
\* A natural number too wide for one machine integer is a sequence of limbs,
\* most significant first, in base LimbBase = 2^LimbBits.
LimbBits == 10
LimbBase == 1024
\* Significand width of a double.
MantissaBits == 53
\* Fraction bits computed for a quotient before it is rounded.
QuotientBits == 64

RECURSIVE Pow2(_)
Pow2(k) == IF k = 0 THEN 1 ELSE 2 * Pow2(k - 1)

Zeros(k) == [i \in 1..k |-> 0]

RECURSIVE StripZeros(_)
StripZeros(a) == IF Len(a) > 1 /\ a[1] = 0 THEN StripZeros(Tail(a)) ELSE a

\* a * f + carry for a small factor f, from the last limb: st = [i, carry, out].
RECURSIVE MulLoop(_, _, _)
MulLoop(a, f, st) ==
  IF st.i = 0
  THEN (IF st.carry = 0 THEN st.out
        ELSE MulLoop(a, f, [i |-> 0, carry |-> st.carry \div LimbBase,
                            out |-> <<st.carry % LimbBase>> \o st.out]))
  ELSE LET t == a[st.i] * f + st.carry
       IN  MulLoop(a, f, [i |-> st.i - 1, carry |-> t \div LimbBase,
                          out |-> <<t % LimbBase>> \o st.out])

BigMul(a, f) == StripZeros(MulLoop(a, f, [i |-> Len(a), carry |-> 0, out |-> <<>>]))
BigAdd(a, k) == StripZeros(MulLoop(a, 1, [i |-> Len(a), carry |-> k, out |-> <<>>]))

\* a divided by a small d, from the first limb: st = [i, r, q].
RECURSIVE DivLoop(_, _, _)
DivLoop(a, d, st) ==
  IF st.i > Len(a) THEN [q |-> StripZeros(st.q), r |-> st.r]
  ELSE LET t == st.r * LimbBase + a[st.i]
       IN  DivLoop(a, d, [i |-> st.i + 1, r |-> t % d, q |-> Append(st.q, t \div d)])

BigDiv(a, d) == DivLoop(a, d, [i |-> 1, r |-> 0, q |-> <<0>>])

BigShl(a, k) == BigMul(a \o Zeros(k \div LimbBits), Pow2(k % LimbBits))

\* floor(a / 2^k), and whether the division is exact
BigShr(a, k) ==
  LET whole == k \div LimbBits
      keep  == IF Len(a) > whole THEN SubSeq(a, 1, Len(a) - whole) ELSE <<0>>
      low   == IF Len(a) > whole THEN SubSeq(a, Len(a) - whole + 1, Len(a)) ELSE a
      d     == BigDiv(keep, Pow2(k % LimbBits))
  IN  [q |-> d.q, exact |-> d.r = 0 /\ \A i \in 1..Len(low) : low[i] = 0]

BigOdd(a) == a[Len(a)] % 2 = 1

RECURSIVE BigToNat(_)
BigToNat(a) ==
  IF a = <<>> THEN 0 ELSE BigToNat(SubSeq(a, 1, Len(a) - 1)) * LimbBase + a[Len(a)]

BitLen(a) ==
  LET top == CHOOSE k \in 0..LimbBits : a[1] < Pow2(k) /\ (k = 0 \/ a[1] >= Pow2(k - 1))
  IN  (Len(a) - 1) * LimbBits + top

\* The double nearest to p * 2^e (ties to even); sticky says that p itself is
\* a quotient cut off below its last bit.  A double is [m, e], worth m * 2^e.
RoundToDouble(p, e, sticky) ==
  LET d == BitLen(p) - MantissaBits
  IN  IF d <= 0 THEN [m |-> p, e |-> e]
      ELSE LET s  == BigShr(p, d - 1)
               h  == BigDiv(s.q, 2)
               up == h.r = 1 /\ (sticky \/ ~s.exact \/ BigOdd(h.q))
           IN  [m |-> BigAdd(h.q, IF up THEN 1 ELSE 0), e |-> e + d]

\* c / n in double arithmetic, 0 < c, 0 < n < 2^9
FloatDiv(c, n) ==
  LET d == BigDiv(BigShl(<<c>>, QuotientBits), n)
  IN  RoundToDouble(d.q, 0 - QuotientBits, d.r # 0)

\* x * f in double arithmetic, f a small natural
FloatMul(x, f) == RoundToDouble(BigMul(x.m, f), x.e, FALSE)

\* Math.round: the nearest integer, halves upwards
MathRound(x) ==
  IF x.e >= 0 THEN BigToNat(BigShl(x.m, x.e))
  ELSE (BigToNat(BigShr(x.m, (0 - x.e) - 1).q) + 1) \div 2

\* ------------------------------------------------------------ the document
\* Subtask content as manageSubtasks receives it.  "" is the empty content and
\* " " a content of white space only; "A" is "a" in another letter case.
Trim(c) ==
  CASE c = " "        -> ""
    [] c = "fix bug " -> "fix bug"
    [] c = "Fix bug " -> "Fix bug"
    [] OTHER          -> c
ToLowerCase(c) ==
  CASE c = "A"        -> "a"
    [] c = "Fix bug"  -> "fix bug"
    [] c = "Fix bug " -> "fix bug "
    [] OTHER          -> c

\* interface Subtask
NewSubtask(id, content, status, now) ==
  [id |-> id, content |-> content, status |-> status,
   createdAt |-> now, completedAt |-> NoTime]

\* interface Task, as requestPlanning and addTasksToRequest build it: the
\* optional fields subtasks and completionPercentage are absent.  hasSubtasks
\* tells whether the field subtasks is present (the code's `task.subtasks`
\* being truthy); an absent list reads as <<>>.
NewTask(id, title, description) ==
  [id |-> id, title |-> title, description |-> description,
   done |-> FALSE, approved |-> FALSE,
   hasSubtasks |-> FALSE, subtasks |-> <<>>, completionPercentage |-> NoPct]

\* `req-${requestId}-task-${k}` and `${taskId}-subtask-${m}`
TaskId(requestId, k) == <<requestId, k>>
SubtaskId(taskId, m) == <<taskId[1], taskId[2], m>>
\* The texts of the ids: `req-${this.requestCounter}` for a request, and
\* `req-${requestId}-task-${k}` for a task, where requestId is the text of
\* the request's id.
RequestIdText(n) == "req-" \o ToString(n)
TaskIdText(taskId) ==
  "req-" \o RequestIdText(taskId[1]) \o "-task-" \o ToString(taskId[2])

\* id.match(/-task-(\d+)$/), id.split('-task-')[1] and id.match(/-subtask-(\d+)$/)
TaskNumber(taskId) == taskId[2]
SubtaskNumber(subtaskId) == subtaskId[3]

AllTasks(reqs) == UNION {Range(reqs[i].tasks) : i \in 1..Len(reqs)}
AllSubtasks(reqs) == UNION {Range(t.subtasks) : t \in AllTasks(reqs)}

\* The stored task t.id === text picks among the tasks of data, as
\* manageSubtasks looks it up; NoId when no task has that text for id.
TaskIdOfText(data, text) ==
  LET found == {t.id : t \in {u \in AllTasks(data) : TaskIdText(u.id) = text}}
  IN  IF found = {} THEN NoId ELSE CHOOSE id \in found : TRUE

VARIABLES
  file,            \* the task file: [exists, damaged, requests]
  backups,         \* the backup files beside it, each known by the time in its name
  clock,           \* what new Date() and Date.now() return
  requestCounter,  \* this.requestCounter between two calls
  taskCounter,     \* this.taskCounter between two calls
  inFlight         \* the calls that overlap: [calls, writer]

vars == <<file, backups, clock, requestCounter, taskCounter, inFlight>>

\* The task file holding the document reqs, and the file a write that broke
\* off half way leaves: it is there and JSON.parse fails on its text.
FileOf(reqs) == [exists |-> TRUE, damaged |-> FALSE, requests |-> reqs]
NoFile == [exists |-> FALSE, damaged |-> FALSE, requests |-> <<>>]
DamagedFile == [exists |-> TRUE, damaged |-> TRUE, requests |-> <<>>]

\* loadTasks: the document and both counters come from the file; when the file
\* cannot be read the document starts empty and the counters stay.
LoadTasks(f, rc, tc) ==
  IF f.exists /\ ~f.damaged
  THEN [data |-> f.requests,
        requestCounter |-> MaxOrZero({r.requestId : r \in Range(f.requests)}),
        taskCounter |-> MaxOrZero({SubtaskNumber(st.id) : st \in AllSubtasks(f.requests)})]
  ELSE [data |-> <<>>, requestCounter |-> rc, taskCounter |-> tc]

\* What a method hands back to its caller and leaves behind: the document in
\* memory, whether saveTasks wrote it, both counters and the result object.
Outcome(data, save, rc, tc, res) ==
  [data |-> data, save |-> save, requestCounter |-> rc, taskCounter |-> tc, res |-> res]

\* A method that returns before it changes anything.
Returned(ld, res) == Outcome(ld.data, FALSE, ld.requestCounter, ld.taskCounter, res)
\* A method that changed the document and called saveTasks.
Saved(ld, data, res) == Outcome(data, TRUE, ld.requestCounter, ld.taskCounter, res)

\* The result object: the fields the callers and the properties below read.
Result(op, status) ==
  [op |-> op, action |-> "", status |-> status, code |-> "", message |-> "",
   requestId |-> 0, taskId |-> NoId, subtaskId |-> NoId,
   completionPercentage |-> NoPct, remainingSubtasks |-> -1,
   displayNumber |-> -1, count |-> -1]

Error(op, message) == [Result(op, "error") EXCEPT !.message = message]
ErrorCode(op, code) == [Result(op, "error") EXCEPT !.code = code]

FindRequest(data, requestId) == FindIndex({i \in 1..Len(data) : data[i].requestId = requestId})
FindTask(tasks, taskId) == FindIndex({i \in 1..Len(tasks) : tasks[i].id = taskId})
FindSubtask(subtasks, subtaskId) == FindIndex({i \in 1..Len(subtasks) : subtasks[i].id = subtaskId})

CompletedCount(subtasks) == Cardinality({i \in 1..Len(subtasks) : subtasks[i].status = "completed"})

\* calculateCompletionPercentage: Math.round((completedCount / length) * 100),
\* evaluated in double arithmetic as the code evaluates it.
CalculateCompletionPercentage(subtasks) ==
  IF Len(subtasks) = 0 THEN 0
  ELSE MathRound(FloatMul(FloatDiv(CompletedCount(subtasks), Len(subtasks)), 100))

\* ------------------------------------------------------- request and tasks
\* requestPlanning(originalRequest, tasks, splitDetails); tasks is a list of
\* [title, description].
RequestPlanning(ld, tasks) ==
  LET rc == ld.requestCounter + 1
      newTasks == [k \in 1..Len(tasks) |->
                     NewTask(TaskId(rc, k), tasks[k].title, tasks[k].description)]
      req == [requestId |-> rc, tasks |-> newTasks, completed |-> FALSE]
  IN  Outcome(Append(ld.data, req), TRUE, rc, ld.taskCounter + Len(tasks),
              [Result("request_planning", "planned") EXCEPT
                 !.requestId = rc, !.count = Len(newTasks)])

\* The last task that is not done instead of the first.
LastNotDone(tasks) ==
  LET open == {i \in 1..Len(tasks) : ~tasks[i].done}
  IN  IF open = {} THEN 0 ELSE CHOOSE i \in open : \A j \in open : j <= i

\* req.tasks.find((t) => !t.done)
FirstNotDone(tasks) == FindIndex({i \in 1..Len(tasks) : ~tasks[i].done})

\* getNextTask(requestId)
GetNextTask(ld, requestId) ==
  LET op == "get_next_task"
      ri == FindRequest(ld.data, requestId)
      req == ld.data[ri]
      ti == FirstNotDone(req.tasks)
  IN  IF ri = 0 THEN Returned(ld, Error(op, "Request not found"))
      ELSE IF req.completed THEN Returned(ld, Result(op, "already_completed"))
      ELSE IF ti = 0
      THEN (IF (\A i \in 1..Len(req.tasks) : req.tasks[i].done) /\ ~req.completed
            THEN Returned(ld, Result(op, "all_tasks_done"))
            ELSE Returned(ld, Result(op, "no_next_task")))
      ELSE Returned(ld, [Result(op, "next_task") EXCEPT
                           !.taskId = req.tasks[ti].id,
                           !.displayNumber = TaskNumber(req.tasks[ti].id)])

\* markTaskDone without its look at the subtasks.
MarkTaskDoneUngated(ld, requestId, taskId) ==
  LET op == "mark_task_done"
      ri == FindRequest(ld.data, requestId)
      req == ld.data[ri]
      ti == FindTask(req.tasks, taskId)
      task == req.tasks[ti]
  IN  IF ri = 0 THEN Returned(ld, Error(op, "Request not found"))
      ELSE IF ti = 0 THEN Returned(ld, Error(op, "Task not found"))
      ELSE IF task.done THEN Returned(ld, Result(op, "already_done"))
      ELSE Saved(ld, [ld.data EXCEPT ![ri].tasks[ti].done = TRUE],
                 [Result(op, "task_marked_done") EXCEPT
                    !.requestId = req.requestId, !.taskId = task.id,
                    !.displayNumber = TaskNumber(task.id),
                    !.completionPercentage = task.completionPercentage])

\* markTaskDone(requestId, taskId, completedDetails)
MarkTaskDone(ld, requestId, taskId) ==
  LET op == "mark_task_done"
      ri == FindRequest(ld.data, requestId)
      req == ld.data[ri]
      ti == FindTask(req.tasks, taskId)
      task == req.tasks[ti]
      allCompleted == \A i \in 1..Len(task.subtasks) : task.subtasks[i].status = "completed"
      storedPct == IF task.completionPercentage = NoPct THEN 0 ELSE task.completionPercentage
  IN  IF ri = 0 THEN Returned(ld, Error(op, "Request not found"))
      ELSE IF ti = 0 THEN Returned(ld, Error(op, "Task not found"))
      ELSE IF task.done THEN Returned(ld, Result(op, "already_done"))
      ELSE IF task.hasSubtasks /\ Len(task.subtasks) > 0 /\ ~allCompleted
      THEN Returned(ld, [Result(op, "subtasks_incomplete") EXCEPT
                           !.completionPercentage = storedPct,
                           !.remainingSubtasks =
                              Len(task.subtasks) - CompletedCount(task.subtasks)])
      ELSE Saved(ld, [ld.data EXCEPT ![ri].tasks[ti].done = TRUE],
                 [Result(op, "task_marked_done") EXCEPT
                    !.requestId = req.requestId, !.taskId = task.id,
                    !.displayNumber = TaskNumber(task.id),
                    !.completionPercentage = task.completionPercentage])

\* approveTaskCompletion that sets approved in memory and never saves it.
ApproveTaskCompletionUnsaved(ld, requestId, taskId) ==
  LET op == "approve_task_completion"
      ri == FindRequest(ld.data, requestId)
      req == ld.data[ri]
      ti == FindTask(req.tasks, taskId)
      task == req.tasks[ti]
  IN  IF ri = 0 THEN Returned(ld, Error(op, "Request not found"))
      ELSE IF ti = 0 THEN Returned(ld, Error(op, "Task not found"))
      ELSE IF ~task.done THEN Returned(ld, Error(op, "Task not done yet."))
      ELSE IF task.approved THEN Returned(ld, Result(op, "already_approved"))
      ELSE Outcome([ld.data EXCEPT ![ri].tasks[ti].approved = TRUE], FALSE,
                   ld.requestCounter, ld.taskCounter,
                   [Result(op, "task_approved") EXCEPT
                      !.requestId = req.requestId, !.taskId = task.id])

\* approveTaskCompletion without its "Task not done yet." test.
ApproveTaskCompletionOfAny(ld, requestId, taskId) ==
  LET op == "approve_task_completion"
      ri == FindRequest(ld.data, requestId)
      req == ld.data[ri]
      ti == FindTask(req.tasks, taskId)
      task == req.tasks[ti]
  IN  IF ri = 0 THEN Returned(ld, Error(op, "Request not found"))
      ELSE IF ti = 0 THEN Returned(ld, Error(op, "Task not found"))
      ELSE IF task.approved THEN Returned(ld, Result(op, "already_approved"))
      ELSE Saved(ld, [ld.data EXCEPT ![ri].tasks[ti].approved = TRUE],
                 [Result(op, "task_approved") EXCEPT
                    !.requestId = req.requestId, !.taskId = task.id])

\* approveTaskCompletion(requestId, taskId)
ApproveTaskCompletion(ld, requestId, taskId) ==
  LET op == "approve_task_completion"
      ri == FindRequest(ld.data, requestId)
      req == ld.data[ri]
      ti == FindTask(req.tasks, taskId)
      task == req.tasks[ti]
  IN  IF ri = 0 THEN Returned(ld, Error(op, "Request not found"))
      ELSE IF ti = 0 THEN Returned(ld, Error(op, "Task not found"))
      ELSE IF ~task.done THEN Returned(ld, Error(op, "Task not done yet."))
      ELSE IF task.approved THEN Returned(ld, Result(op, "already_approved"))
      ELSE Saved(ld, [ld.data EXCEPT ![ri].tasks[ti].approved = TRUE],
                 [Result(op, "task_approved") EXCEPT
                    !.requestId = req.requestId, !.taskId = task.id])

\* approveRequestCompletion without its "Not all done tasks are approved." test.
ApproveRequestCompletionOfDone(ld, requestId) ==
  LET op == "approve_request_completion"
      ri == FindRequest(ld.data, requestId)
      req == ld.data[ri]
      allDone == \A i \in 1..Len(req.tasks) : req.tasks[i].done
  IN  IF ri = 0 THEN Returned(ld, Error(op, "Request not found"))
      ELSE IF ~allDone THEN Returned(ld, Error(op, "Not all tasks are done."))
      ELSE Saved(ld, [ld.data EXCEPT ![ri].completed = TRUE],
                 [Result(op, "request_approved_complete") EXCEPT
                    !.requestId = req.requestId])

\* approveRequestCompletion that sets completed on every request.
ApproveRequestCompletionOfAll(ld, requestId) ==
  LET op == "approve_request_completion"
      ri == FindRequest(ld.data, requestId)
      req == ld.data[ri]
      allDone == \A i \in 1..Len(req.tasks) : req.tasks[i].done
      allApproved == \A i \in 1..Len(req.tasks) : req.tasks[i].done /\ req.tasks[i].approved
  IN  IF ri = 0 THEN Returned(ld, Error(op, "Request not found"))
      ELSE IF ~allDone THEN Returned(ld, Error(op, "Not all tasks are done."))
      ELSE IF ~allApproved THEN Returned(ld, Error(op, "Not all done tasks are approved."))
      ELSE Saved(ld, [i \in 1..Len(ld.data) |-> [ld.data[i] EXCEPT !.completed = TRUE]],
                 [Result(op, "request_approved_complete") EXCEPT
                    !.requestId = req.requestId])

\* approveRequestCompletion(requestId)
ApproveRequestCompletion(ld, requestId) ==
  LET op == "approve_request_completion"
      ri == FindRequest(ld.data, requestId)
      req == ld.data[ri]
      allDone == \A i \in 1..Len(req.tasks) : req.tasks[i].done
      allApproved == \A i \in 1..Len(req.tasks) : req.tasks[i].done /\ req.tasks[i].approved
  IN  IF ri = 0 THEN Returned(ld, Error(op, "Request not found"))
      ELSE IF ~allDone THEN Returned(ld, Error(op, "Not all tasks are done."))
      ELSE IF ~allApproved THEN Returned(ld, Error(op, "Not all done tasks are approved."))
      ELSE Saved(ld, [ld.data EXCEPT ![ri].completed = TRUE],
                 [Result(op, "request_approved_complete") EXCEPT
                    !.requestId = req.requestId])

\* openTaskDetails(taskId): the first request holding the task
OpenTaskDetails(ld, taskId) ==
  LET op == "open_task_details"
      ri == FindIndex({i \in 1..Len(ld.data) : FindTask(ld.data[i].tasks, taskId) # 0})
      target == ld.data[ri].tasks[FindTask(ld.data[ri].tasks, taskId)]
  IN  IF ri = 0 THEN Returned(ld, Result(op, "task_not_found"))
      ELSE Returned(ld, [Result(op, "task_details") EXCEPT
                           !.requestId = ld.data[ri].requestId, !.taskId = target.id,
                           !.displayNumber = TaskNumber(target.id),
                           !.completionPercentage = target.completionPercentage,
                           !.count = Len(target.subtasks)])

\* listRequests()
ListRequests(ld) ==
  Returned(ld, [Result("list_requests", "requests_listed") EXCEPT !.count = Len(ld.data)])

\* addTasksToRequest without its "Cannot add tasks to completed request" test.
AddTasksToCompletedRequest(ld, requestId, tasks) ==
  LET op == "add_tasks_to_request"
      ri == FindRequest(ld.data, requestId)
      req == ld.data[ri]
      maxTaskNum == MaxOrZero({TaskNumber(t.id) : t \in Range(req.tasks)})
      newTasks == [k \in 1..Len(tasks) |->
                     NewTask(TaskId(requestId, maxTaskNum + k),
                             tasks[k].title, tasks[k].description)]
  IN  IF ri = 0 THEN Returned(ld, Error(op, "Request not found"))
      ELSE Outcome([ld.data EXCEPT ![ri].tasks = req.tasks \o newTasks], TRUE,
                   ld.requestCounter, ld.taskCounter + Len(tasks),
                   [Result(op, "tasks_added") EXCEPT
                      !.requestId = requestId, !.count = Len(newTasks)])

\* addTasksToRequest numbering the new tasks from the count of the tasks
\* instead of from their greatest number.
AddTasksToRequestByCount(ld, requestId, tasks) ==
  LET op == "add_tasks_to_request"
      ri == FindRequest(ld.data, requestId)
      req == ld.data[ri]
      newTasks == [k \in 1..Len(tasks) |->
                     NewTask(TaskId(requestId, Len(req.tasks) + k),
                             tasks[k].title, tasks[k].description)]
  IN  IF ri = 0 THEN Returned(ld, Error(op, "Request not found"))
      ELSE IF req.completed
      THEN Returned(ld, Error(op, "Cannot add tasks to completed request"))
      ELSE Outcome([ld.data EXCEPT ![ri].tasks = req.tasks \o newTasks], TRUE,
                   ld.requestCounter, ld.taskCounter + Len(tasks),
                   [Result(op, "tasks_added") EXCEPT
                      !.requestId = requestId, !.count = Len(newTasks)])

\* addTasksToRequest(requestId, tasks)
AddTasksToRequest(ld, requestId, tasks) ==
  LET op == "add_tasks_to_request"
      ri == FindRequest(ld.data, requestId)
      req == ld.data[ri]
      maxTaskNum == MaxOrZero({TaskNumber(t.id) : t \in Range(req.tasks)})
      newTasks == [k \in 1..Len(tasks) |->
                     NewTask(TaskId(requestId, maxTaskNum + k),
                             tasks[k].title, tasks[k].description)]
  IN  IF ri = 0 THEN Returned(ld, Error(op, "Request not found"))
      ELSE IF req.completed
      THEN Returned(ld, Error(op, "Cannot add tasks to completed request"))
      ELSE Outcome([ld.data EXCEPT ![ri].tasks = req.tasks \o newTasks], TRUE,
                   ld.requestCounter, ld.taskCounter + Len(tasks),
                   [Result(op, "tasks_added") EXCEPT
                      !.requestId = requestId, !.count = Len(newTasks)])

\* updateTask(requestId, taskId, {title, description}); "" is an absent field
UpdateTask(ld, requestId, taskId, title, description) ==
  LET op == "update_task"
      ri == FindRequest(ld.data, requestId)
      req == ld.data[ri]
      ti == FindTask(req.tasks, taskId)
      task == req.tasks[ti]
      updated == [task EXCEPT
                    !.title = IF title # "" THEN title ELSE @,
                    !.description = IF description # "" THEN description ELSE @]
  IN  IF ri = 0 THEN Returned(ld, Error(op, "Request not found"))
      ELSE IF ti = 0 THEN Returned(ld, Error(op, "Task not found"))
      ELSE IF task.done THEN Returned(ld, Error(op, "Cannot update completed task"))
      ELSE Saved(ld, [ld.data EXCEPT ![ri].tasks[ti] = updated],
                 [Result(op, "task_updated") EXCEPT !.taskId = task.id])

\* deleteTask without its "Cannot delete completed task" test.
DeleteTaskOfDone(ld, requestId, taskId) ==
  LET op == "delete_task"
      ri == FindRequest(ld.data, requestId)
      req == ld.data[ri]
      ti == FindTask(req.tasks, taskId)
  IN  IF ri = 0 THEN Returned(ld, Error(op, "Request not found"))
      ELSE IF ti = 0 THEN Returned(ld, Error(op, "Task not found"))
      ELSE Saved(ld, [ld.data EXCEPT ![ri].tasks = RemoveAt(req.tasks, ti)],
                 Result(op, "task_deleted"))

\* deleteTask(requestId, taskId)
DeleteTask(ld, requestId, taskId) ==
  LET op == "delete_task"
      ri == FindRequest(ld.data, requestId)
      req == ld.data[ri]
      ti == FindTask(req.tasks, taskId)
  IN  IF ri = 0 THEN Returned(ld, Error(op, "Request not found"))
      ELSE IF ti = 0 THEN Returned(ld, Error(op, "Task not found"))
      ELSE IF req.tasks[ti].done
      THEN Returned(ld, Error(op, "Cannot delete completed task"))
      ELSE Saved(ld, [ld.data EXCEPT ![ri].tasks = RemoveAt(req.tasks, ti)],
                 Result(op, "task_deleted"))

\* clearAllTasks()
ClearAllTasks(ld) ==
  Outcome(<<>>, TRUE, 0, 0,
          [Result("clear_all_tasks", "all_tasks_cleared") EXCEPT
             !.count = Len(ld.data)])

\* ---------------------------------------------------------------- subtasks
\* The transition table without the way back from cancelled.
ValidTransitionsNoRestart ==
  [s \in Statuses |->
     CASE s = "pending"     -> {"in_progress", "cancelled"}
       [] s = "in_progress" -> {"completed", "pending", "cancelled"}
       [] s = "completed"   -> {"pending"}
       [] s = "cancelled"   -> {}]

\* validateStatusTransition / getValidTransitions
ValidTransitions ==
  [s \in Statuses |->
     CASE s = "pending"     -> {"in_progress", "cancelled"}
       [] s = "in_progress" -> {"completed", "pending", "cancelled"}
       [] s = "completed"   -> {"pending"}
       [] s = "cancelled"   -> {"pending"}]

\* validateStatusTransition taking a status to itself as well.
ValidateStatusTransitionOrSame(currentStatus, newStatus) ==
  /\ currentStatus \in DOMAIN ValidTransitions
  /\ newStatus \in ValidTransitions[currentStatus] \cup {currentStatus}

ValidateStatusTransition(currentStatus, newStatus) ==
  currentStatus \in DOMAIN ValidTransitions /\ newStatus \in ValidTransitions[currentStatus]

\* validateUniqueContent(subtasks, newContent, excludeId)
ValidateUniqueContent(subtasks, newContent, excludeId) ==
  ~\E i \in 1..Len(subtasks) :
      /\ ToLowerCase(subtasks[i].content) = ToLowerCase(newContent)
      /\ subtasks[i].id # excludeId

\* validateSubtaskData(subtask).valid; status "" is an absent status
ValidateSubtaskData(content, status) ==
  /\ content # ""
  /\ Len(content) >= 1
  /\ Len(content) <= MaxContentLength
  /\ Trim(content) # ""
  /\ (status # "" => status \in Statuses)

\* A sort by createdAt that is not stable: subtasks of the same createdAt come
\* out in the reverse of their order.
SortByCreatedAtUnstable(subtasks) ==
  LET n == Len(subtasks)
      rank(i) == Cardinality({j \in 1..n : subtasks[j].createdAt < subtasks[i].createdAt})
                 + Cardinality({j \in (i + 1)..n :
                                  subtasks[j].createdAt = subtasks[i].createdAt})
                 + 1
  IN  [p \in 1..n |-> subtasks[CHOOSE i \in 1..n : rank(i) = p]]

\* [...taskSubtasks].sort by createdAt; the sort is stable
SortByCreatedAt(subtasks) ==
  LET n == Len(subtasks)
      rank(i) == Cardinality({j \in 1..n : subtasks[j].createdAt < subtasks[i].createdAt})
                 + Cardinality({j \in 1..(i - 1) :
                                  subtasks[j].createdAt = subtasks[i].createdAt})
                 + 1
  IN  [p \in 1..n |-> subtasks[CHOOSE i \in 1..n : rank(i) = p]]

\* getSubtaskDisplayNumber(subtaskId, taskSubtasks)
GetSubtaskDisplayNumber(subtaskId, taskSubtasks) ==
  FindSubtask(SortByCreatedAt(taskSubtasks), subtaskId)

\* ValidatedSubtasks with one generateSubtaskId per call instead of one per
\* subtask.
ValidatedSubtasksUncounted(ld, taskId, items, valid, now) ==
  LET keep == SelectSeqIdx(items, valid, 1)
  IN  [k \in 1..Len(keep) |->
         NewSubtask(SubtaskId(taskId, ld.taskCounter + 1), keep[k].content,
                    IF keep[k].status # "" THEN keep[k].status ELSE "pending", now)]

\* The subtasks a create or break_down call builds from its items: the valid
\* ones, in order, each with the id generateSubtaskId hands out.
ValidatedSubtasks(ld, taskId, items, valid, now) ==
  LET keep == SelectSeqIdx(items, valid, 1)
  IN  [k \in 1..Len(keep) |->
         NewSubtask(SubtaskId(taskId, ld.taskCounter + k), keep[k].content,
                    IF keep[k].status # "" THEN keep[k].status ELSE "pending", now)]

\* The task manageSubtasks works on: the first request holding params.taskId.
TargetRequest(data, taskId) == FindIndex({i \in 1..Len(data) : FindTask(data[i].tasks, taskId) # 0})

SubtaskResult(action, status) == [Result("manage_subtasks", status) EXCEPT !.action = action]
SubtaskError(action, code) == [SubtaskResult(action, "error") EXCEPT !.code = code]

\* WithSubtasks that also takes done back when a subtask is not completed.
WithSubtasksReopened(task, subtasks) ==
  [task EXCEPT !.hasSubtasks = TRUE, !.subtasks = subtasks,
               !.completionPercentage = CalculateCompletionPercentage(subtasks),
               !.done = @ /\ CompletedCount(subtasks) = Len(subtasks)]

\* The task with its subtasks replaced and its percentage recomputed.
WithSubtasks(task, subtasks) ==
  [task EXCEPT !.hasSubtasks = TRUE, !.subtasks = subtasks,
               !.completionPercentage = CalculateCompletionPercentage(subtasks)]

\* case "create"
SubtaskCreate(ld, ri, ti, items, now) ==
  LET task == ld.data[ri].tasks[ti]
      valid == {i \in 1..Len(items) :
                  /\ ValidateSubtaskData(items[i].content, items[i].status)
                  /\ ValidateUniqueContent(task.subtasks, items[i].content, NoId)}
      validated == ValidatedSubtasks(ld, task.id, items, valid, now)
      tc == ld.taskCounter + Len(validated)
      updated == WithSubtasks(task, task.subtasks \o validated)
  IN  IF Len(items) = 0
      THEN Returned(ld, SubtaskError("create", "MISSING_SUBTASKS"))
      ELSE IF valid # 1..Len(items)
      THEN Outcome(ld.data, FALSE, ld.requestCounter, tc,
                   SubtaskError("create", "VALIDATION_FAILED"))
      ELSE Outcome([ld.data EXCEPT ![ri].tasks[ti] = updated], TRUE,
                   ld.requestCounter, tc,
                   [SubtaskResult("create", "subtasks_created") EXCEPT
                      !.taskId = task.id,
                      !.completionPercentage = updated.completionPercentage,
                      !.count = Len(updated.subtasks)])

\* case "update"; content "" and status "" are absent fields
SubtaskUpdate(ld, ri, ti, subtaskId, content, status, now) ==
  LET task == ld.data[ri].tasks[ti]
      si == FindSubtask(task.subtasks, subtaskId)
      subtask == task.subtasks[si]
      contentOk == content = "" \/
                     (/\ ValidateSubtaskData(content, "")
                      /\ ValidateUniqueContent(task.subtasks, content, subtaskId))
      statusOk == status = "" \/ ValidateStatusTransition(subtask.status, status)
      changed == [subtask EXCEPT
                    !.content = IF content # "" THEN content ELSE @,
                    !.status = IF status # "" THEN status ELSE @,
                    !.completedAt =
                       IF status = "" THEN @
                       ELSE IF status = "completed" /\ subtask.status # "completed" THEN now
                       ELSE IF status # "completed" /\ subtask.status = "completed" THEN NoTime
                       ELSE @]
      updated == WithSubtasks(task, [task.subtasks EXCEPT ![si] = changed])
  IN  IF subtaskId = NoId
      THEN Returned(ld, SubtaskError("update", "MISSING_SUBTASK_ID"))
      ELSE IF content = "" /\ status = ""
      THEN Returned(ld, SubtaskError("update", "MISSING_UPDATES"))
      ELSE IF ~task.hasSubtasks
      THEN Returned(ld, SubtaskError("update", "NO_SUBTASKS"))
      ELSE IF si = 0
      THEN Returned(ld, SubtaskError("update", "SUBTASK_NOT_FOUND"))
      ELSE IF ~(contentOk /\ statusOk)
      THEN Returned(ld, SubtaskError("update", "UPDATE_VALIDATION_FAILED"))
      ELSE Saved(ld, [ld.data EXCEPT ![ri].tasks[ti] = updated],
                 [SubtaskResult("update", "subtask_updated") EXCEPT
                    !.taskId = task.id, !.subtaskId = changed.id,
                    !.displayNumber = GetSubtaskDisplayNumber(changed.id, updated.subtasks),
                    !.completionPercentage = updated.completionPercentage])

\* case "complete"
SubtaskComplete(ld, ri, ti, subtaskId, now) ==
  LET task == ld.data[ri].tasks[ti]
      si == FindSubtask(task.subtasks, subtaskId)
      subtask == task.subtasks[si]
      changed == [subtask EXCEPT !.status = "completed", !.completedAt = now]
      updated == WithSubtasks(task, [task.subtasks EXCEPT ![si] = changed])
  IN  IF subtaskId = NoId
      THEN Returned(ld, SubtaskError("complete", "MISSING_SUBTASK_ID"))
      ELSE IF ~task.hasSubtasks
      THEN Returned(ld, SubtaskError("complete", "NO_SUBTASKS"))
      ELSE IF si = 0
      THEN Returned(ld, SubtaskError("complete", "SUBTASK_NOT_FOUND"))
      ELSE IF subtask.status = "completed"
      THEN Returned(ld, SubtaskError("complete", "ALREADY_COMPLETED"))
      ELSE IF ~ValidateStatusTransition(subtask.status, "completed")
      THEN Returned(ld, SubtaskError("complete", "INVALID_TRANSITION"))
      ELSE Saved(ld, [ld.data EXCEPT ![ri].tasks[ti] = updated],
                 [SubtaskResult("complete", "subtask_completed") EXCEPT
                    !.taskId = task.id, !.subtaskId = changed.id,
                    !.displayNumber = GetSubtaskDisplayNumber(changed.id, updated.subtasks),
                    !.completionPercentage = updated.completionPercentage,
                    !.remainingSubtasks =
                       Len(updated.subtasks) - CompletedCount(updated.subtasks)])

\* case "delete", deleting a subtask whatever its status.
SubtaskDeleteOfAny(ld, ri, ti, subtaskId) ==
  LET task == ld.data[ri].tasks[ti]
      si == FindSubtask(task.subtasks, subtaskId)
      deleted == task.subtasks[si]
      updated == WithSubtasks(task, RemoveAt(task.subtasks, si))
  IN  IF subtaskId = NoId
      THEN Returned(ld, SubtaskError("delete", "MISSING_SUBTASK_ID"))
      ELSE IF ~task.hasSubtasks
      THEN Returned(ld, SubtaskError("delete", "NO_SUBTASKS"))
      ELSE IF si = 0
      THEN Returned(ld, SubtaskError("delete", "SUBTASK_NOT_FOUND"))
      ELSE Saved(ld, [ld.data EXCEPT ![ri].tasks[ti] = updated],
                 [SubtaskResult("delete", "subtask_deleted") EXCEPT
                    !.taskId = task.id, !.subtaskId = deleted.id,
                    !.displayNumber =
                       GetSubtaskDisplayNumber(deleted.id, Append(updated.subtasks, deleted)),
                    !.completionPercentage = updated.completionPercentage,
                    !.remainingSubtasks = Len(updated.subtasks)])

\* case "delete"
SubtaskDelete(ld, ri, ti, subtaskId) ==
  LET task == ld.data[ri].tasks[ti]
      si == FindSubtask(task.subtasks, subtaskId)
      deleted == task.subtasks[si]
      updated == WithSubtasks(task, RemoveAt(task.subtasks, si))
  IN  IF subtaskId = NoId
      THEN Returned(ld, SubtaskError("delete", "MISSING_SUBTASK_ID"))
      ELSE IF ~task.hasSubtasks
      THEN Returned(ld, SubtaskError("delete", "NO_SUBTASKS"))
      ELSE IF si = 0
      THEN Returned(ld, SubtaskError("delete", "SUBTASK_NOT_FOUND"))
      ELSE IF deleted.status = "completed"
      THEN Returned(ld, SubtaskError("delete", "CANNOT_DELETE_COMPLETED"))
      ELSE Saved(ld, [ld.data EXCEPT ![ri].tasks[ti] = updated],
                 [SubtaskResult("delete", "subtask_deleted") EXCEPT
                    !.taskId = task.id, !.subtaskId = deleted.id,
                    !.displayNumber =
                       GetSubtaskDisplayNumber(deleted.id, Append(updated.subtasks, deleted)),
                    !.completionPercentage = updated.completionPercentage,
                    !.remainingSubtasks = Len(updated.subtasks)])

\* case "break_down", adding to the subtasks the task has.
SubtaskBreakDownAppending(ld, ri, ti, items, now) ==
  LET task == ld.data[ri].tasks[ti]
      valid == {i \in 1..Len(items) : ValidateSubtaskData(items[i].content, items[i].status)}
      validated == ValidatedSubtasks(ld, task.id, items, valid, now)
      tc == ld.taskCounter + Len(validated)
      duplicates == {i \in 1..Len(validated) :
                       \E j \in 1..(i - 1) :
                          ToLowerCase(validated[j].content) = ToLowerCase(validated[i].content)}
      updated == WithSubtasks(task, task.subtasks \o validated)
  IN  IF Len(items) = 0
      THEN Returned(ld, SubtaskError("break_down", "MISSING_SUBTASKS"))
      ELSE IF Len(items) > MaxBatch
      THEN Returned(ld, SubtaskError("break_down", "TOO_MANY_SUBTASKS"))
      ELSE IF valid # 1..Len(items)
      THEN Outcome(ld.data, FALSE, ld.requestCounter, tc,
                   SubtaskError("break_down", "VALIDATION_FAILED"))
      ELSE IF duplicates # {}
      THEN Outcome(ld.data, FALSE, ld.requestCounter, tc,
                   SubtaskError("break_down", "DUPLICATE_CONTENT"))
      ELSE Outcome([ld.data EXCEPT ![ri].tasks[ti] = updated], TRUE,
                   ld.requestCounter, tc,
                   [SubtaskResult("break_down", "task_broken_down") EXCEPT
                      !.taskId = task.id,
                      !.completionPercentage = updated.completionPercentage,
                      !.count = Len(updated.subtasks)])

\* case "break_down"
SubtaskBreakDown(ld, ri, ti, items, now) ==
  LET task == ld.data[ri].tasks[ti]
      valid == {i \in 1..Len(items) : ValidateSubtaskData(items[i].content, items[i].status)}
      validated == ValidatedSubtasks(ld, task.id, items, valid, now)
      tc == ld.taskCounter + Len(validated)
      duplicates == {i \in 1..Len(validated) :
                       \E j \in 1..(i - 1) :
                          ToLowerCase(validated[j].content) = ToLowerCase(validated[i].content)}
      updated == WithSubtasks(task, validated)
  IN  IF Len(items) = 0
      THEN Returned(ld, SubtaskError("break_down", "MISSING_SUBTASKS"))
      ELSE IF Len(items) > MaxBatch
      THEN Returned(ld, SubtaskError("break_down", "TOO_MANY_SUBTASKS"))
      ELSE IF valid # 1..Len(items)
      THEN Outcome(ld.data, FALSE, ld.requestCounter, tc,
                   SubtaskError("break_down", "VALIDATION_FAILED"))
      ELSE IF duplicates # {}
      THEN Outcome(ld.data, FALSE, ld.requestCounter, tc,
                   SubtaskError("break_down", "DUPLICATE_CONTENT"))
      ELSE Outcome([ld.data EXCEPT ![ri].tasks[ti] = updated], TRUE,
                   ld.requestCounter, tc,
                   [SubtaskResult("break_down", "task_broken_down") EXCEPT
                      !.taskId = task.id,
                      !.completionPercentage = updated.completionPercentage,
                      !.count = Len(updated.subtasks)])

\* manageSubtasks(params): params = [taskId, action, subtasks, subtaskId,
\* updates]; an absent subtasks is <<>>, an absent subtaskId NoId, an absent
\* updates.content or updates.status "".
ManageSubtasks(ld, params, now) ==
  LET ri == TargetRequest(ld.data, params.taskId)
      ti == FindTask(ld.data[ri].tasks, params.taskId)
  IN  IF ri = 0
      THEN Returned(ld, SubtaskError(params.action, "TASK_NOT_FOUND"))
      ELSE CASE params.action = "create" ->
                  SubtaskCreate(ld, ri, ti, params.subtasks, now)
             [] params.action = "update" ->
                  SubtaskUpdate(ld, ri, ti, params.subtaskId,
                                params.updates.content, params.updates.status, now)
             [] params.action = "complete" ->
                  SubtaskComplete(ld, ri, ti, params.subtaskId, now)
             [] params.action = "delete" ->
                  SubtaskDelete(ld, ri, ti, params.subtaskId)
             [] params.action = "break_down" ->
                  SubtaskBreakDown(ld, ri, ti, params.subtasks, now)
             [] OTHER ->
                  Returned(ld, SubtaskError(params.action, "UNKNOWN_ACTION"))

\* ------------------------------------------------------------- environment
\* The callers of the server: each Call* action is one tool call, run from its
\* loadTasks to its return.  L holds the sets the arguments are drawn from and
\* the caps that keep the counters finite; with L.inOrder the caller completes
\* the subtasks in the order of their numbers.
TaskDef == [title |-> "T1", description |-> "D1"]

Item(content, status) == [content |-> content, status |-> status]

RequestIds(L) == 1..L.maxRequests
TaskIds(L) == {TaskId(n, k) : n \in 1..L.maxRequests, k \in 1..L.maxTaskNum}
SubtaskNumbers(L) == 1..L.maxSubtaskNum

\* What loadTasks leaves in memory at the start of a call.
Loaded == LoadTasks(file, requestCounter, taskCounter)

\* What can go wrong with the file system during a call: fs.writeFile of
\* saveTasks may fail before it touches the file ("refused", as on a read-only
\* file system) or after it truncated it ("torn"); fs.copyFile may fail in
\* createBackup (backup) and in rollbackToBackup (restore).
SaveFaults == {"none", "refused", "torn"}
Faults == [save : SaveFaults, backup : BOOLEAN, restore : BOOLEAN]
NoFault == [save |-> "none", backup |-> FALSE, restore |-> FALSE]

\* saveTasks: the file after fs.writeFile of the document; it throws unless
\* the fault is "none".
SaveTasks(f, data, fault) ==
  CASE fault = "none"    -> FileOf(data)
    [] fault = "refused" -> f
    [] fault = "torn"    -> DamagedFile

\* An exception that leaves the method: the CallTool handler answers
\* { content: "Error: ...", isError: true }, which has no status and no code.
Thrown(op) == [Result(op, "") EXCEPT !.message = "Error"]

\* What a call leaves behind and answers.
Effect(f, bs, rc, tc, res) ==
  [file |-> f, backups |-> bs, requestCounter |-> rc, taskCounter |-> tc, res |-> res]

\* A method other than manageSubtasks, from its outcome in memory: saveTasks
\* is awaited with no try around it, so its exception leaves the method.
Completed(out, f, bs, fault) ==
  IF out.save
  THEN Effect(SaveTasks(f, out.data, fault.save), bs, out.requestCounter, out.taskCounter,
              IF fault.save = "none" THEN out.res ELSE Thrown(out.res.op))
  ELSE Effect(f, bs, out.requestCounter, out.taskCounter, out.res)

\* createBackup: copies the task file to `${TASK_FILE_PATH}.backup.${Date.now()}`
\* and makes nothing when there is no task file to copy.  A backup is read
\* only by the call that wrote it, so its name is all that is kept of it.
CreateBackup(f, bs, now) == IF f.exists THEN bs \cup {now} ELSE bs

\* manageSubtasks with a catch that reports the error and restores nothing.
CompletedSubtasksUnrestored(out, f, bs, now, fault) ==
  LET hasBackup == f.exists /\ ~fault.backup
      made == IF hasBackup THEN CreateBackup(f, bs, now) ELSE bs
  IN  IF out.save /\ fault.save # "none"
      THEN Effect(SaveTasks(f, out.data, fault.save), made,
                  out.requestCounter, out.taskCounter,
                  SubtaskError(out.res.action, "INTERNAL_ERROR"))
      ELSE Effect(IF out.save THEN SaveTasks(f, out.data, "none") ELSE f, made,
                  out.requestCounter, out.taskCounter, out.res)

\* manageSubtasks around its switch: createBackup, the action, and in the
\* catch rollbackToBackup (copy the backup over the task file, unlink it).
CompletedSubtasks(out, f, bs, now, fault) ==
  LET hasBackup == f.exists /\ ~fault.backup
      made == IF hasBackup THEN CreateBackup(f, bs, now) ELSE bs
  IN  IF out.save /\ fault.save # "none"
      THEN (IF hasBackup /\ ~fault.restore
            THEN Effect(f, made \ {now}, out.requestCounter, out.taskCounter,
                        SubtaskError(out.res.action, "INTERNAL_ERROR"))
            ELSE Effect(SaveTasks(f, out.data, fault.save), made,
                        out.requestCounter, out.taskCounter,
                        SubtaskError(out.res.action, "INTERNAL_ERROR")))
      ELSE Effect(IF out.save THEN SaveTasks(f, out.data, "none") ELSE f, made,
                  out.requestCounter, out.taskCounter, out.res)

\* The arguments of a manage_subtasks call; content "" and status "" are
\* absent fields.
SubtaskCall(taskId, action, subtasks, subtaskId, content, status) ==
  [taskId |-> taskId, action |-> action, subtasks |-> subtasks, subtaskId |-> subtaskId,
   updates |-> [content |-> content, status |-> status]]

\* SubtaskSchema without .trim(): the content is kept as it was sent.
SubtaskSchemaUntrimmed(item) ==
  [success |-> /\ Len(item.content) >= 1
               /\ Len(item.content) <= MaxContentLength
               /\ Len(Trim(item.content)) > 0
               /\ item.status \in Statuses \cup {""},
   data |-> Item(item.content, IF item.status = "" THEN "pending" ELSE item.status)]

\* SubtaskSchema.safeParse of one item: the content is trimmed and an absent
\* status becomes "pending".
SubtaskSchema(item) ==
  [success |-> /\ Len(item.content) >= 1
               /\ Len(item.content) <= MaxContentLength
               /\ Len(Trim(item.content)) > 0
               /\ item.status \in Statuses \cup {""},
   data |-> Item(Trim(item.content), IF item.status = "" THEN "pending" ELSE item.status)]

\* ManageSubtasksSchema.safeParse(args)
ManageSubtasksSchema(args) ==
  LET items == [i \in 1..Len(args.subtasks) |-> SubtaskSchema(args.subtasks[i])]
      content == Trim(args.updates.content)
      refined ==
        CASE args.action \in {"create", "break_down"} -> Len(args.subtasks) > 0
          [] args.action = "update" ->
               args.subtaskId # NoId /\ (content # "" \/ args.updates.status # "")
          [] args.action \in {"complete", "delete"} -> args.subtaskId # NoId
          [] OTHER -> TRUE
  IN  [success |-> /\ args.action \in {"create", "update", "complete", "delete", "break_down"}
                   /\ \A i \in 1..Len(items) : items[i].success
                   /\ Len(args.subtasks) <= MaxBatch
                   /\ Len(args.updates.content) <= MaxContentLength
                   /\ args.updates.status \in Statuses \cup {""}
                   /\ refined,
       data |-> [args EXCEPT !.subtasks = [i \in 1..Len(items) |-> items[i].data],
                             !.updates.content = content]]

\* case "manage_subtasks" of the CallTool handler: a call the schema rejects
\* never reaches manageSubtasks.
ToolManageSubtasks(args, f, bs, rc, tc, now, fault) ==
  LET parsed == ManageSubtasksSchema(args)
  IN  IF ~parsed.success
      THEN Effect(f, bs, rc, tc, SubtaskError(args.action, "SCHEMA_VALIDATION_FAILED"))
      ELSE CompletedSubtasks(ManageSubtasks(LoadTasks(f, rc, tc), parsed.data, now),
                             f, bs, now, fault)

\* The state a call leaves.
Leave(eff) ==
  /\ file' = eff.file
  /\ backups' = eff.backups
  /\ requestCounter' = eff.requestCounter
  /\ taskCounter' = eff.taskCounter
  /\ UNCHANGED <<clock, inFlight>>

\* A call of a method other than manageSubtasks.
Finish(out, fault) == Leave(Completed(out, file, backups, fault))

\* A manage_subtasks call.
FinishSubtasks(args, fault) ==
  Leave(ToolManageSubtasks(args, file, backups, requestCounter, taskCounter, clock, fault))

\* The faults of L that a method without backup can meet: those of saveTasks.
SaveFaultsOf(L) == {[fault EXCEPT !.backup = FALSE, !.restore = FALSE] : fault \in L.faults}

CallRequestPlanning(L) ==
  \E tasks \in L.taskLists, fault \in SaveFaultsOf(L) :
    /\ Loaded.requestCounter < L.maxRequests
    /\ Finish(RequestPlanning(Loaded, tasks), fault)

CallGetNextTask(L) ==
  \E r \in RequestIds(L) : Finish(GetNextTask(Loaded, r), NoFault)

CallMarkTaskDone(L) ==
  \E r \in RequestIds(L), t \in TaskIds(L), fault \in SaveFaultsOf(L) :
    Finish(MarkTaskDone(Loaded, r, t), fault)

CallApproveTaskCompletion(L) ==
  \E r \in RequestIds(L), t \in TaskIds(L), fault \in SaveFaultsOf(L) :
    Finish(ApproveTaskCompletion(Loaded, r, t), fault)

CallApproveRequestCompletion(L) ==
  \E r \in RequestIds(L), fault \in SaveFaultsOf(L) :
    Finish(ApproveRequestCompletion(Loaded, r), fault)

CallOpenTaskDetails(L) ==
  \E t \in TaskIds(L) : Finish(OpenTaskDetails(Loaded, t), NoFault)

CallListRequests(L) == Finish(ListRequests(Loaded), NoFault)

CallAddTasksToRequest(L) ==
  \E r \in RequestIds(L), tasks \in L.taskLists, fault \in SaveFaultsOf(L) :
    /\ \A q \in Range(Loaded.data) : \A t \in Range(q.tasks) :
          q.requestId = r => TaskNumber(t.id) + Len(tasks) <= L.maxTaskNum
    /\ Finish(AddTasksToRequest(Loaded, r, tasks), fault)

CallUpdateTask(L) ==
  \E r \in RequestIds(L), t \in TaskIds(L), u \in L.taskUpdates, fault \in SaveFaultsOf(L) :
    Finish(UpdateTask(Loaded, r, t, u.title, u.description), fault)

CallDeleteTask(L) ==
  \E r \in RequestIds(L), t \in TaskIds(L), fault \in SaveFaultsOf(L) :
    Finish(DeleteTask(Loaded, r, t), fault)

CallClearAllTasks(L) ==
  \E fault \in SaveFaultsOf(L) : Finish(ClearAllTasks(Loaded), fault)

CallSubtaskCreate(L) ==
  \E t \in TaskIds(L), b \in L.batches, fault \in L.faults :
    /\ Loaded.taskCounter + Len(b) <= L.maxSubtaskNum
    /\ FinishSubtasks(SubtaskCall(t, "create", b, NoId, "", ""), fault)

CallSubtaskBreakDown(L) ==
  \E t \in TaskIds(L), b \in L.batches, fault \in L.faults :
    /\ Loaded.taskCounter + Len(b) <= L.maxSubtaskNum
    /\ FinishSubtasks(SubtaskCall(t, "break_down", b, NoId, "", ""), fault)

CallSubtaskUpdate(L) ==
  \E t \in TaskIds(L), m \in SubtaskNumbers(L), u \in L.subtaskUpdates, fault \in L.faults :
    FinishSubtasks(SubtaskCall(t, "update", <<>>, SubtaskId(t, m), u.content, u.status), fault)

CallSubtaskComplete(L) ==
  \E t \in TaskIds(L), m \in SubtaskNumbers(L), fault \in L.faults :
    /\ L.inOrder =>
         \A st \in AllSubtasks(Loaded.data) :
            st.status # "completed" => SubtaskNumber(st.id) >= m
    /\ FinishSubtasks(SubtaskCall(t, "complete", <<>>, SubtaskId(t, m), "", ""), fault)

CallSubtaskDelete(L) ==
  \E t \in TaskIds(L), m \in SubtaskNumbers(L), fault \in L.faults :
    FinishSubtasks(SubtaskCall(t, "delete", <<>>, SubtaskId(t, m), "", ""), fault)

\* ---- overlapping calls.  The CallTool handler is async and every method
\* awaits loadTasks first, so a second call can be started while the first
\* waits for its fs.readFile.  A call is split where it awaits: BeginCall is
\* readFile returning the text of the task file, RunCall everything after it
\* (JSON.parse, the counters, the body of the method, saveTasks).  The
\* writes of two calls do not overlap.
Clients == 1..MaxClients

\* A call: the method and its arguments.
Op(name, requestId, taskId, tasks) ==
  [name |-> name, requestId |-> requestId, taskId |-> taskId, tasks |-> tasks]

NoCall == [pc |-> "idle", op |-> Op("", 0, NoId, <<>>), read |-> NoFile, res |-> Result("", "")]

\* case name of the CallTool handler
RunOp(ld, op) ==
  CASE op.name = "request_planning" -> RequestPlanning(ld, op.tasks)
    [] op.name = "mark_task_done" -> MarkTaskDone(ld, op.requestId, op.taskId)
    [] op.name = "approve_task_completion" ->
         ApproveTaskCompletion(ld, op.requestId, op.taskId)
    [] OTHER -> Returned(ld, Thrown(op.name))

\* A call that reads the task file again when it resumes.
ResumeOnFreshFile(call, f) == f

\* The text JSON.parse gets in loadTasks: what readFile returned to this
\* call, whatever the task file f holds by now.
Resume(call, f) == call.read

BeginCall(L) ==
  \E c \in Clients, op \in L.ops :
    /\ inFlight.calls[c].pc # "loaded"
    /\ inFlight' = [inFlight EXCEPT
                      !.calls[c] = [pc |-> "loaded", op |-> op, read |-> file,
                                    res |-> Result("", "")]]
    /\ UNCHANGED <<file, backups, clock, requestCounter, taskCounter>>

RunCall(L) ==
  \E c \in Clients :
    LET call == inFlight.calls[c]
        ld == LoadTasks(Resume(call, file), requestCounter, taskCounter)
        out == RunOp(ld, call.op)
        eff == Completed(out, file, backups, NoFault)
    IN  /\ call.pc = "loaded"
        /\ call.op.name = "request_planning" => ld.requestCounter < L.maxRequests
        /\ file' = eff.file
        /\ backups' = eff.backups
        /\ requestCounter' = eff.requestCounter
        /\ taskCounter' = eff.taskCounter
        /\ inFlight' = [calls |-> [inFlight.calls EXCEPT
                                     ![c] = [call EXCEPT !.pc = "returned", !.res = eff.res]],
                        writer |-> IF out.save THEN c ELSE inFlight.writer]
        /\ UNCHANGED clock

Calls(L) ==
  \/ CallRequestPlanning(L)
  \/ CallGetNextTask(L)
  \/ CallMarkTaskDone(L)
  \/ CallApproveTaskCompletion(L)
  \/ CallApproveRequestCompletion(L)
  \/ CallOpenTaskDetails(L)
  \/ CallListRequests(L)
  \/ CallAddTasksToRequest(L)
  \/ CallUpdateTask(L)
  \/ CallDeleteTask(L)
  \/ CallClearAllTasks(L)
  \/ CallSubtaskCreate(L)
  \/ CallSubtaskBreakDown(L)
  \/ CallSubtaskUpdate(L)
  \/ CallSubtaskComplete(L)
  \/ CallSubtaskDelete(L)

\* The state after construction: no task file yet.
Init ==
  /\ file = NoFile
  /\ backups = {}
  /\ clock = 0
  /\ requestCounter = 0
  /\ taskCounter = 0
  /\ inFlight = [calls |-> [c \in Clients |-> NoCall], writer |-> 0]

\* ---- Spec: the whole server on a small document
Items(contents, statuses) == {Item(c, s) : c \in contents, s \in statuses}

Wide ==
  [maxRequests |-> MaxRequests, maxTaskNum |-> MaxTaskNum,
   maxSubtaskNum |-> MaxSubtaskNum,
   taskLists |-> {<<TaskDef>>, <<TaskDef, TaskDef>>},
   taskUpdates |-> {[title |-> "T2", description |-> ""]},
   batches |-> {<<i>> : i \in Items({"a"}, {"", "in_progress", "completed"})}
                      \cup {<<Item("a", ""), Item("b", "")>>},
   subtaskUpdates |-> Items({""}, Statuses),
   inOrder |-> FALSE, faults |-> {NoFault}]

Next == Calls(Wide)

Spec == Init /\ [][Next]_vars

\* ---- SpecDeep: one request of one task, broken down into four subtasks
Deep ==
  [maxRequests |-> NarrowMaxRequests, maxTaskNum |-> NarrowMaxTaskNum,
   maxSubtaskNum |-> DeepMaxSubtaskNum,
   taskLists |-> {<<TaskDef>>},
   taskUpdates |-> {[title |-> "T2", description |-> ""]},
   batches |-> {<<Item("a", "pending"), Item("b", "pending"),
                  Item("c", "pending"), Item("d", "pending")>>},
   subtaskUpdates |-> Items({""}, Statuses),
   inOrder |-> FALSE, faults |-> {NoFault}]

NextDeep == Calls(Deep)

SpecDeep == Init /\ [][NextDeep]_vars

\* ---- SpecContent: one task whose subtasks differ in case and white space
Content ==
  [maxRequests |-> NarrowMaxRequests, maxTaskNum |-> NarrowMaxTaskNum,
   maxSubtaskNum |-> ContentMaxSubtaskNum,
   taskLists |-> {<<TaskDef>>},
   taskUpdates |-> {[title |-> "T2", description |-> ""]},
   batches |-> {<<i>> : i \in Items({"a", "Fix bug", "fix bug ", " "}, {""})}
               \cup {<<Item("a", ""), Item("A", "")>>, <<Item("b", ""), Item("a", "")>>,
                     <<Item("b", ""), Item(" ", "")>>},
   subtaskUpdates |-> Items({"", "A"}, {"", "in_progress", "completed"}),
   inOrder |-> FALSE, faults |-> {NoFault}]

NextContent == Calls(Content)

SpecContent == Init /\ [][NextContent]_vars

\* ---- SpecFault: one task, with the file system failing under the calls
Fault ==
  [maxRequests |-> NarrowMaxRequests, maxTaskNum |-> NarrowMaxTaskNum,
   maxSubtaskNum |-> FaultMaxSubtaskNum,
   taskLists |-> {<<TaskDef>>},
   taskUpdates |-> {[title |-> "T2", description |-> ""]},
   batches |-> {<<Item("a", "")>>, <<Item("a", ""), Item("b", "")>>},
   subtaskUpdates |-> Items({"", "c"}, {"", "in_progress"}),
   inOrder |-> FALSE, faults |-> Faults]

NextFault == Calls(Fault)

SpecFault == Init /\ [][NextFault]_vars

\* ---- SpecRace: two overlapping calls on one request of two tasks
Race ==
  [maxRequests |-> NarrowMaxRequests,
   ops |-> {Op("request_planning", 0, NoId, <<TaskDef, TaskDef>>)}
           \cup {Op(n, 1, TaskId(1, k), <<>>) :
                   n \in {"mark_task_done", "approve_task_completion"}, k \in 1..2}]

NextRace == BeginCall(Race) \/ RunCall(Race)

SpecRace == Init /\ [][NextRace]_vars

\* ---- SpecIds: two requests whose tasks and subtasks come and go
Ids ==
  [maxRequests |-> IdsMaxRequests, maxTaskNum |-> MaxTaskNum,
   maxSubtaskNum |-> IdsMaxSubtaskNum,
   taskLists |-> {<<TaskDef>>},
   taskUpdates |-> {[title |-> "T2", description |-> ""]},
   batches |-> {<<Item("a", "")>>, <<Item("b", ""), Item("c", "")>>},
   subtaskUpdates |-> Items({""}, Statuses),
   inOrder |-> FALSE, faults |-> {NoFault}]

NextIds ==
  \/ CallRequestPlanning(Ids)
  \/ CallAddTasksToRequest(Ids)
  \/ CallDeleteTask(Ids)
  \/ CallClearAllTasks(Ids)
  \/ CallSubtaskCreate(Ids)
  \/ CallSubtaskBreakDown(Ids)
  \/ CallSubtaskDelete(Ids)

SpecIds == Init /\ [][NextIds]_vars

\* ---- SpecClock: one task whose subtasks are made at different times
\* Time passes between two calls: Date.now() never goes back.
Tick ==
  /\ clock < MaxClock
  /\ clock' = clock + 1
  /\ UNCHANGED <<file, backups, requestCounter, taskCounter, inFlight>>

Timed ==
  [maxRequests |-> NarrowMaxRequests, maxTaskNum |-> NarrowMaxTaskNum,
   maxSubtaskNum |-> ClockMaxSubtaskNum,
   taskLists |-> {<<TaskDef>>},
   taskUpdates |-> {[title |-> "T2", description |-> ""]},
   batches |-> {<<Item("a", "")>>, <<Item("b", ""), Item("c", "")>>},
   subtaskUpdates |-> Items({""}, Statuses),
   inOrder |-> FALSE, faults |-> {NoFault}]

NextClock ==
  \/ Tick
  \/ CallRequestPlanning(Timed)
  \/ CallSubtaskCreate(Timed)
  \/ CallSubtaskBreakDown(Timed)
  \/ CallSubtaskComplete(Timed)
  \/ CallSubtaskDelete(Timed)
  \/ CallMarkTaskDone(Timed)
  \/ CallOpenTaskDetails(Timed)

SpecClock == Init /\ [][NextClock]_vars

\* ---- SpecFrame: two requests of two tasks each, worked on side by side
Frame ==
  [maxRequests |-> FrameMaxRequests, maxTaskNum |-> MaxTaskNum,
   maxSubtaskNum |-> FrameMaxSubtaskNum,
   taskLists |-> {<<TaskDef, TaskDef>>},
   taskUpdates |-> {[title |-> "T2", description |-> ""]},
   batches |-> {<<Item("a", "in_progress")>>},
   subtaskUpdates |-> Items({"b"}, {"", "pending"}),
   inOrder |-> FALSE, faults |-> {NoFault}]

NextFrame ==
  \/ CallRequestPlanning(Frame)
  \/ CallMarkTaskDone(Frame)
  \/ CallApproveTaskCompletion(Frame)
  \/ CallSubtaskCreate(Frame)
  \/ CallSubtaskComplete(Frame)

SpecFrame == Init /\ [][NextFrame]_vars

\* ---- SpecRollback: a manage_subtasks call overlapped by other calls.
\* manageSubtasks awaits createBackup before its try and loadTasks inside it,
\* so other calls can save between the copy and the rollback.  The call is
\* split after createBackup: BeginSubtasks is the schema parse and the copy of
\* the task file, EndSubtasks everything after it (loadTasks, the action,
\* saveTasks, and rollbackToBackup in the catch).
\* manageSubtasks after createBackup copied the task file as snapshot: what
\* the action's outcome and the catch leave of the task file f as it is by now.
Restored(out, snapshot, f, bs, now, fault) ==
  LET restores == snapshot.exists /\ ~fault.restore
  IN  IF out.save /\ fault.save # "none"
      THEN Effect(IF restores THEN snapshot ELSE SaveTasks(f, out.data, fault.save),
                  IF restores THEN bs \ {now} ELSE bs,
                  out.requestCounter, out.taskCounter,
                  SubtaskError(out.res.action, "INTERNAL_ERROR"))
      ELSE Effect(IF out.save THEN SaveTasks(f, out.data, "none") ELSE f, bs,
                  out.requestCounter, out.taskCounter, out.res)

\* The rest of a call that has made its backup.
AfterBackup(call, fault) ==
  Restored(ManageSubtasks(LoadTasks(file, requestCounter, taskCounter), call.op, clock),
           call.read, file, backups, clock, fault)

BeginSubtasks(L) ==
  \E c \in Clients, args \in L.subtaskCalls :
    /\ inFlight.calls[c].pc # "backed_up"
    /\ ManageSubtasksSchema(args).success
    /\ inFlight' = [inFlight EXCEPT
                      !.calls[c] = [pc |-> "backed_up", op |-> ManageSubtasksSchema(args).data,
                                    read |-> file, res |-> Result("", "")]]
    /\ backups' = CreateBackup(file, backups, clock)
    /\ UNCHANGED <<file, clock, requestCounter, taskCounter>>

EndSubtasks(L) ==
  \E c \in Clients, fault \in L.faults :
    /\ inFlight.calls[c].pc = "backed_up"
    /\ LET call == inFlight.calls[c]
           eff == AfterBackup(call, fault)
       IN  /\ eff.taskCounter <= L.maxSubtaskNum
           /\ file' = eff.file
           /\ backups' = eff.backups
           /\ requestCounter' = eff.requestCounter
           /\ taskCounter' = eff.taskCounter
           /\ inFlight' = [calls |-> [inFlight.calls EXCEPT
                                        ![c] = [call EXCEPT !.pc = "returned",
                                                            !.res = eff.res]],
                           writer |-> IF eff.file # file THEN c ELSE inFlight.writer]
           /\ UNCHANGED clock

RefusedSave == [save |-> "refused", backup |-> FALSE, restore |-> FALSE]

Overlapped ==
  [maxRequests |-> NarrowMaxRequests, maxTaskNum |-> MaxTaskNum,
   maxSubtaskNum |-> MaxSubtaskNum,
   taskLists |-> {<<TaskDef, TaskDef>>},
   subtaskCalls |-> {SubtaskCall(TaskId(1, 1), "create", <<Item("a", "")>>, NoId, "", "")},
   faults |-> {NoFault, RefusedSave}]

NextRollback ==
  \/ CallRequestPlanning(Overlapped)
  \/ CallMarkTaskDone(Overlapped)
  \/ BeginSubtasks(Overlapped)
  \/ EndSubtasks(Overlapped)

SpecRollback == Init /\ [][NextRollback]_vars

\* ---- SpecProgress: a request worked to its end.  Until SetupTime the caller
\* plans, makes subtasks and changes their status as it likes; from then on
\* it makes only the calls that take a request towards completion, and keeps
\* making them while one of them changes something.
Worked ==
  [maxRequests |-> NarrowMaxRequests, maxTaskNum |-> MaxTaskNum,
   maxSubtaskNum |-> ProgressMaxSubtaskNum,
   taskLists |-> {<<TaskDef, TaskDef>>},
   batches |-> {<<Item("a", "")>>},
   subtaskUpdates |-> Items({""}, Statuses \ {"completed"}),
   inOrder |-> FALSE, faults |-> {NoFault}]

\* The workflow calls, each from its loadTasks to its return.
\* update of a pending subtask to in_progress
StartCall(t, m) == SubtaskCall(t, "update", <<>>, SubtaskId(t, m), "", "in_progress")

\* complete of an in_progress subtask
CompleteCall(t, m) == SubtaskCall(t, "complete", <<>>, SubtaskId(t, m), "", "")

\* update of a cancelled subtask to pending
RestartCall(t, m) == SubtaskCall(t, "update", <<>>, SubtaskId(t, m), "", "pending")

\* The stored subtask of that id is cancelled.
IsCancelled(subtaskId) ==
  \E st \in AllSubtasks(file.requests) : st.id = subtaskId /\ st.status = "cancelled"

\* A manage_subtasks call of these arguments answers with that status.
Answers(args, status) ==
  ToolManageSubtasks(args, file, backups, requestCounter, taskCounter, clock,
                     NoFault).res.status = status

\* A manage_subtasks call of these arguments that answers with that status.
SubtaskStep(args, status) ==
  \E parsed \in {ManageSubtasksSchema(args)} :
    /\ parsed.success
    /\ \E ld \in {Loaded} :
         \E out \in {ManageSubtasks(ld, parsed.data, clock)} :
           \E eff \in {CompletedSubtasks(out, file, backups, clock, NoFault)} :
             /\ eff.res.status = status
             /\ Leave(eff)

StartSubtask(L) ==
  \E t \in TaskIds(L), m \in SubtaskNumbers(L) :
    \E args \in {StartCall(t, m)} : SubtaskStep(args, "subtask_updated")

CompleteSubtask(L) ==
  \E t \in TaskIds(L), m \in SubtaskNumbers(L) :
    \E args \in {CompleteCall(t, m)} : SubtaskStep(args, "subtask_completed")

RestartSubtask(L) ==
  \E t \in TaskIds(L), m \in SubtaskNumbers(L) :
    \E args \in {RestartCall(t, m)} :
      IsCancelled(SubtaskId(t, m)) /\ SubtaskStep(args, "subtask_updated")

\* Some call of the kind would succeed now.
CanStart(L) ==
  \E t \in TaskIds(L), m \in SubtaskNumbers(L) : Answers(StartCall(t, m), "subtask_updated")

CanComplete(L) ==
  \E t \in TaskIds(L), m \in SubtaskNumbers(L) :
    Answers(CompleteCall(t, m), "subtask_completed")

CanRestart(L) ==
  \E t \in TaskIds(L), m \in SubtaskNumbers(L) :
    IsCancelled(SubtaskId(t, m)) /\ Answers(RestartCall(t, m), "subtask_updated")

\* mark_task_done, approve_task_completion and approve_request_completion
WorkOnTask(L) ==
  \E r \in RequestIds(L), t \in TaskIds(L) :
    \E ld \in {Loaded} :
      \E out \in {MarkTaskDone(ld, r, t), ApproveTaskCompletion(ld, r, t),
                   ApproveRequestCompletion(ld, r)} :
        \E eff \in {Completed(out, file, backups, NoFault)} :
          /\ out.save
          /\ Leave(eff)

Workflow == StartSubtask(Worked) \/ CompleteSubtask(Worked) \/ WorkOnTask(Worked)

Restart == RestartSubtask(Worked)

Setup ==
  /\ clock < SetupTime
  /\ \/ CallRequestPlanning(Worked)
     \/ CallSubtaskCreate(Worked)
     \/ CallSubtaskUpdate(Worked)

\* The time for arranging the request is over.
Deadline ==
  /\ clock < SetupTime
  /\ clock' = clock + 1
  /\ UNCHANGED <<file, backups, requestCounter, taskCounter, inFlight>>

NextProgress == Setup \/ Deadline \/ Workflow \/ Restart

\* Weak fairness of the steps of manage_subtasks, with ENABLED written out as the
\* success of the call: either the call would fail again and again, or it is
\* made again and again.
FairStart == []<>~CanStart(Worked) \/ []<><<StartSubtask(Worked)>>_vars
FairComplete == []<>~CanComplete(Worked) \/ []<><<CompleteSubtask(Worked)>>_vars
FairRestart == []<>~CanRestart(Worked) \/ []<><<Restart>>_vars

\* The setting up ends, and a task or request that can be marked done or
\* approved is.
SpecProgress ==
  Init /\ [][NextProgress]_vars /\ WF_vars(Deadline) /\ WF_vars(WorkOnTask(Worked))

\* ---- SpecPct: one task with a long list of subtasks, completed one by one
PctContents ==
  <<"s1", "s2", "s3", "s4", "s5", "s6", "s7", "s8", "s9", "s10",
    "s11", "s12", "s13", "s14", "s15", "s16", "s17", "s18", "s19", "s20",
    "s21", "s22", "s23", "s24", "s25", "s26", "s27", "s28", "s29", "s30",
    "s31", "s32", "s33", "s34", "s35", "s36", "s37", "s38", "s39", "s40",
    "s41", "s42", "s43", "s44", "s45", "s46", "s47", "s48", "s49", "s50">>

Pct ==
  [maxRequests |-> NarrowMaxRequests, maxTaskNum |-> NarrowMaxTaskNum,
   maxSubtaskNum |-> PctMaxSubtasks,
   taskLists |-> {<<TaskDef>>},
   batches |-> {[k \in 1..n |-> Item(PctContents[k], "in_progress")] :
                  n \in (PctMaxSubtasks - PctSizes + 1)..PctMaxSubtasks},
   inOrder |-> TRUE, faults |-> {NoFault}]

NextPct ==
  \/ CallRequestPlanning(Pct)
  \/ CallSubtaskBreakDown(Pct)
  \/ CallSubtaskComplete(Pct)

SpecPct == Init /\ [][NextPct]_vars

\* ---- SpecMany: one task that is given the largest batch and then more
Many ==
  [maxRequests |-> NarrowMaxRequests, maxTaskNum |-> NarrowMaxTaskNum,
   maxSubtaskNum |-> ManyMaxSubtaskNum,
   taskLists |-> {<<TaskDef>>},
   taskUpdates |-> {[title |-> "T2", description |-> ""]},
   batches |-> {[k \in 1..MaxBatch |-> Item(PctContents[k], "in_progress")],
                <<Item("a", "in_progress")>>},
   subtaskUpdates |-> Items({""}, Statuses),
   inOrder |-> TRUE, faults |-> {NoFault}]

NextMany ==
  \/ CallRequestPlanning(Many)
  \/ CallSubtaskCreate(Many)
  \/ CallSubtaskBreakDown(Many)
  \/ CallSubtaskComplete(Many)

SpecMany == Init /\ [][NextMany]_vars

\* --------------------------------------------------------------- properties
\* What the properties below read of a state: the saved document.
Requests == Range(file.requests)
Tasks == AllTasks(file.requests)
Subtasks == AllSubtasks(file.requests)

DoneUnapproved(req) == {t \in Range(req.tasks) : t.done /\ ~t.approved}
AllDoneAndApproved(req) == \A t \in Range(req.tasks) : t.done /\ t.approved
NotCompleted(task) == {i \in 1..Len(task.subtasks) : task.subtasks[i].status # "completed"}

\* C1 -- approval gating: while some task of a request is done but not yet
\* approved, get_next_task on that request does not hand out a different task
\* as next_task.
ApprovalGating ==
  \A req \in Requests :
    DoneUnapproved(req) # {} =>
      LET res == GetNextTask(Loaded, req.requestId).res
      IN  res.status = "next_task" => res.taskId \in {t.id : t \in DoneUnapproved(req)}

\* C2 -- every approved task is done, and approve_task_completion approves
\* only a task that is done when it is called.
ApprovedImpliesDone ==
  /\ \A t \in Tasks : t.approved => t.done
  /\ \A req \in Requests : \A t \in Range(req.tasks) :
       LET out == ApproveTaskCompletion(Loaded, req.requestId, t.id)
       IN  /\ out.res.status = "task_approved" => t.done
           /\ ~t.done => out.res.status = "error" /\ ~out.save

\* An approved task exists, and it was approved after it was marked done.
ApprovedTaskReached ==
  \E req \in Requests : \E t \in Range(req.tasks) :
    /\ t.done /\ t.approved
    /\ ApproveTaskCompletion(Loaded, req.requestId, t.id).res.status = "already_approved"

\* C3 -- mark_task_done on a task that is not done fails with
\* subtasks_incomplete, leaving the document alone, exactly when the task has
\* a subtask that is not completed; otherwise it sets done and nothing else;
\* on a done task it answers already_done and changes nothing.
MarkTaskDoneGate ==
  \A i \in 1..Len(file.requests) : \A j \in 1..Len(file.requests[i].tasks) :
    LET req == file.requests[i]
        t == req.tasks[j]
        out == MarkTaskDone(Loaded, req.requestId, t.id)
        blocked == Len(t.subtasks) >= 1 /\ NotCompleted(t) # {}
    IN  IF t.done
        THEN out.res.status = "already_done" /\ ~out.save /\ out.data = file.requests
        ELSE IF blocked
        THEN /\ out.res.status = "subtasks_incomplete"
             /\ out.res.remainingSubtasks = Cardinality(NotCompleted(t))
             /\ ~out.save /\ out.data = file.requests
        ELSE /\ out.res.status = "task_marked_done"
             /\ out.save
             /\ out.data = [file.requests EXCEPT ![i].tasks[j].done = TRUE]

\* A task that is not done has an unfinished subtask and mark_task_done
\* refuses it, while another task whose only subtask is completed is done.
MarkTaskDoneGateReached ==
  /\ \E req \in Requests : \E t \in Range(req.tasks) :
       /\ ~t.done /\ Len(t.subtasks) >= 1 /\ NotCompleted(t) # {}
       /\ MarkTaskDone(Loaded, req.requestId, t.id).res.status = "subtasks_incomplete"
  /\ \E t \in Tasks : t.done /\ Len(t.subtasks) >= 1 /\ NotCompleted(t) = {}

\* C4 -- a completed request has every task done and approved, and
\* approve_request_completion completes a request only if that holds when it
\* is called: it fails while a task is not done or not approved.
CompletedImpliesAllApproved ==
  /\ \A req \in Requests : req.completed => AllDoneAndApproved(req)
  /\ \A req \in Requests :
       LET out == ApproveRequestCompletion(Loaded, req.requestId)
       IN  IF AllDoneAndApproved(req)
           THEN out.res.status = "request_approved_complete"
           ELSE out.res.status = "error" /\ ~out.save

\* A request of two tasks is completed.
CompletedRequestReached ==
  \E req \in Requests : req.completed /\ Len(req.tasks) = 2 /\ AllDoneAndApproved(req)

\* C5 -- approve_request_completion succeeds once per request: on a request
\* that is already completed it does not answer request_approved_complete
\* again.
ApproveRequestOnce ==
  \A req \in Requests :
    req.completed =>
      ApproveRequestCompletion(Loaded, req.requestId).res.status # "request_approved_complete"

\* round(100 * completed / total), halves rounded up
RoundedPercentage(completed, total) == (200 * completed + total) \div (2 * total)

\* C6 -- for every task with at least one subtask the stored
\* completionPercentage is round(100 * completed subtasks / subtasks).
PercentageIsRounded ==
  \A t \in Tasks :
    Len(t.subtasks) >= 1 =>
      t.completionPercentage = RoundedPercentage(CompletedCount(t.subtasks), Len(t.subtasks))

\* The transition table of the subtask statuses.
TransitionTable ==
  [s \in Statuses |->
     CASE s = "pending"     -> {"in_progress", "cancelled"}
       [] s = "in_progress" -> {"completed", "pending", "cancelled"}
       [] s = "completed"   -> {"pending"}
       [] s = "cancelled"   -> {"pending"}]

\* C7 -- update and complete change the status of a subtask only along a pair
\* of the transition table; for every other pair, a status to itself
\* included, the call is an error and leaves the document as it was.
TransitionsObeyTable ==
  \A i \in 1..Len(file.requests) : \A j \in 1..Len(file.requests[i].tasks) :
    \A k \in 1..Len(file.requests[i].tasks[j].subtasks) :
      LET t == file.requests[i].tasks[j]
          st == t.subtasks[k]
          Update(s) == ManageSubtasks(Loaded, SubtaskCall(t.id, "update", <<>>, st.id, "", s), clock)
          complete == ManageSubtasks(Loaded, SubtaskCall(t.id, "complete", <<>>, st.id, "", ""), clock)
          Rejected(out) == out.res.status = "error" /\ ~out.save /\ out.data = file.requests
          StatusAfter(out) == out.data[i].tasks[j].subtasks[k].status
      IN  /\ \A s \in Statuses :
               IF s \in TransitionTable[st.status]
               THEN /\ Update(s).res.status = "subtask_updated"
                    /\ Update(s).save
                    /\ StatusAfter(Update(s)) = s
               ELSE Rejected(Update(s))
          /\ IF "completed" \in TransitionTable[st.status]
             THEN /\ complete.res.status = "subtask_completed"
                  /\ complete.save
                  /\ StatusAfter(complete) = "completed"
             ELSE Rejected(complete)

\* A subtask was completed by a call, and the server refuses to take it from
\* completed to in_progress or to completed again.
RejectedTransitionReached ==
  \E t \in Tasks : \E k \in 1..Len(t.subtasks) :
    LET st == t.subtasks[k]
        Update(s) == ManageSubtasks(Loaded, SubtaskCall(t.id, "update", <<>>, st.id, "", s), clock)
    IN  /\ st.status = "completed" /\ st.completedAt # NoTime
        /\ Update("in_progress").res.code = "UPDATE_VALIDATION_FAILED"
        /\ Update("completed").res.code = "UPDATE_VALIDATION_FAILED"
        /\ Update("pending").res.status = "subtask_updated"

\* C8 -- a subtask has a completedAt exactly when its status is completed.
CompletedAtIffCompleted ==
  \A st \in Subtasks : (st.completedAt # NoTime) <=> (st.status = "completed")

\* The loaded state of the call that follows a call with outcome out.
After(out) ==
  [data |-> out.data,
   requestCounter |-> MaxOrZero({r.requestId : r \in Range(out.data)}),
   taskCounter |-> MaxOrZero({SubtaskNumber(st.id) : st \in AllSubtasks(out.data)})]

\* The complete action on the subtask at position k of task t.
CompleteAt(ld, t, k) ==
  ManageSubtasks(ld, SubtaskCall(t.id, "complete", <<>>, t.subtasks[k].id, "", ""), clock)

\* C9 -- the workflow: once a request of one task is planned and the task is
\* broken down into 4 pending subtasks, complete on the first subtask succeeds
\* with completionPercentage 25, mark_task_done then answers
\* subtasks_incomplete with 3 remaining, completing the other three gives 100
\* and mark_task_done then succeeds.
WorkflowScenario ==
  \A req \in Requests :
    (/\ Len(req.tasks) = 1
     /\ ~req.tasks[1].done
     /\ Len(req.tasks[1].subtasks) = 4
     /\ \A k \in 1..4 : req.tasks[1].subtasks[k].status = "pending")
    => LET t == req.tasks[1]
           c1 == CompleteAt(Loaded, t, 1)
           m1 == MarkTaskDone(After(c1), req.requestId, t.id)
           c2 == CompleteAt(After(m1), t, 2)
           c3 == CompleteAt(After(c2), t, 3)
           c4 == CompleteAt(After(c3), t, 4)
           m2 == MarkTaskDone(After(c4), req.requestId, t.id)
       IN  /\ c1.res.status = "subtask_completed"
           /\ c1.res.completionPercentage = 25
           /\ m1.res.status = "subtasks_incomplete"
           /\ m1.res.remainingSubtasks = 3
           /\ c2.res.status = "subtask_completed"
           /\ c3.res.status = "subtask_completed"
           /\ c4.res.status = "subtask_completed"
           /\ c4.res.completionPercentage = 100
           /\ m2.res.status = "task_marked_done"

\* The break_down action with the items b on task t.
BreakDown(t, b) ==
  ManageSubtasks(Loaded, SubtaskCall(t.id, "break_down", b, NoId, "", ""), clock)

\* C10 -- a successful break_down leaves the task with exactly the supplied
\* items as its subtasks, whatever subtasks it had.
BreakDownReplaces ==
  \A i \in 1..Len(file.requests) : \A j \in 1..Len(file.requests[i].tasks) :
    \A b \in Wide.batches :
      LET t == file.requests[i].tasks[j]
          out == BreakDown(t, b)
          now == out.data[i].tasks[j].subtasks
      IN  /\ out.res.status = "task_broken_down"
          /\ out.save
          /\ Len(now) = Len(b)
          /\ \A k \in 1..Len(b) :
               /\ now[k].content = b[k].content
               /\ now[k].status = (IF b[k].status = "" THEN "pending" ELSE b[k].status)
               /\ now[k].id \notin {st.id : st \in Range(t.subtasks)}

\* A task that has subtasks, one of them completed, is broken down by a call
\* the environment makes, and is left with the new items only.
BreakDownOverSubtasksReached ==
  \E t \in Tasks : \E b \in Wide.batches :
    /\ Len(t.subtasks) >= 1
    /\ \E k \in 1..Len(t.subtasks) : t.subtasks[k].status = "completed"
    /\ Loaded.taskCounter + Len(b) <= Wide.maxSubtaskNum
    /\ BreakDown(t, b).res.status = "task_broken_down"
    /\ BreakDown(t, b).res.count = Len(b)

\* A manage_subtasks call made in the current state with no file-system fault.
Tool(args) ==
  ToolManageSubtasks(args, file, backups, requestCounter, taskCounter, clock, NoFault)

\* C13: deleting a completed subtask is rejected with CANNOT_DELETE_COMPLETED
\* and leaves the task file as it is; deleting a subtask in any other status
\* succeeds and takes exactly that subtask out of its task, the other subtasks
\* and every other task staying as they are.
DeleteOnlyNotCompleted ==
  \A i \in 1..Len(file.requests) : \A j \in 1..Len(file.requests[i].tasks) :
    \A k \in 1..Len(file.requests[i].tasks[j].subtasks) :
      LET t == file.requests[i].tasks[j]
          st == t.subtasks[k]
          eff == Tool(SubtaskCall(t.id, "delete", <<>>, st.id, "", ""))
          rest == RemoveAt(t.subtasks, k)
      IN  IF st.status = "completed"
          THEN /\ eff.res.status = "error"
               /\ eff.res.code = "CANNOT_DELETE_COMPLETED"
               /\ eff.file = file
          ELSE /\ eff.res.status = "subtask_deleted"
               /\ eff.file.requests =
                    [file.requests EXCEPT
                       ![i].tasks[j].subtasks = rest,
                       ![i].tasks[j].completionPercentage =
                          CalculateCompletionPercentage(rest)]

\* A task holds a completed subtask beside a cancelled one.
DeleteBothCasesReached ==
  \E t \in Tasks :
    /\ \E st \in Range(t.subtasks) : st.status = "completed"
    /\ \E st \in Range(t.subtasks) : st.status = "cancelled"

\* An approve_task_completion call on the task file f with no fault.
ApproveTask(f, requestId, taskId) ==
  Completed(ApproveTaskCompletion(LoadTasks(f, requestCounter, taskCounter), requestId, taskId),
            f, backups, NoFault)

\* C19: approve_task_completion on a task that is not done is an error and
\* leaves the task file alone; on a done, unapproved task it sets approved and
\* nothing else; approving an approved task, the one just approved included,
\* answers already_approved and leaves the task file alone.
ApproveTaskContract ==
  \A i \in 1..Len(file.requests) : \A j \in 1..Len(file.requests[i].tasks) :
    LET req == file.requests[i]
        t == req.tasks[j]
        first == ApproveTask(file, req.requestId, t.id)
        second == ApproveTask(first.file, req.requestId, t.id)
    IN  CASE ~t.done ->
               first.res.status = "error" /\ first.file = file
          [] t.done /\ ~t.approved ->
               /\ first.res.status = "task_approved"
               /\ first.file.requests = [file.requests EXCEPT ![i].tasks[j].approved = TRUE]
               /\ second.res.status = "already_approved"
               /\ second.file = first.file
          [] t.done /\ t.approved ->
               first.res.status = "already_approved" /\ first.file = file

\* A request holds a task that is done and waits for approval beside a task
\* that is not done.
ApproveTaskCasesReached ==
  \E req \in Requests : \E t, u \in Range(req.tasks) :
    /\ t.done /\ ~t.approved
    /\ ~u.done

\* A call of a method other than manageSubtasks that follows a call with
\* effect eff, no fault occurring: Method is applied to what loadTasks reads.
Then(eff, out) == Completed(out, eff.file, eff.backups, NoFault)
LoadedAfter(eff) == LoadTasks(eff.file, eff.requestCounter, eff.taskCounter)
Now == Effect(file, backups, requestCounter, taskCounter, Result("", ""))

\* C14: the number add_tasks_to_request gives a new task is greater than every
\* number the request has handed out, so the id of a task that delete_task
\* removed is not given to a task added afterwards.
TaskIdsNeverReused ==
  \A req \in Requests : \A t \in Range(req.tasks) :
    LET del == Then(Now, DeleteTask(Loaded, req.requestId, t.id))
        add == Then(del, AddTasksToRequest(LoadedAfter(del), req.requestId, <<TaskDef>>))
        added == {u \in AllTasks(add.file.requests) : u \notin AllTasks(del.file.requests)}
    IN  (del.res.status = "task_deleted" /\ add.res.status = "tasks_added") =>
          \A u \in added : TaskNumber(u.id) > TaskNumber(t.id)

\* A manage_subtasks call that follows a call with effect eff, no fault occurring.
ThenTool(eff, args) ==
  ToolManageSubtasks(args, eff.file, eff.backups, eff.requestCounter, eff.taskCounter,
                     clock, NoFault)

\* C15: the counter behind generateSubtaskId is never lowered, so the id of a
\* subtask that was deleted is not generated again: a subtask created after
\* the deletion gets a greater number.
SubtaskIdsNeverRegenerated ==
  \A t \in Tasks : \A st \in Range(t.subtasks) :
    LET del == ThenTool(Now, SubtaskCall(t.id, "delete", <<>>, st.id, "", ""))
        new == ThenTool(del, SubtaskCall(t.id, "create", <<Item("c", "")>>, NoId, "", ""))
        created == {u \in AllSubtasks(new.file.requests) :
                      u \notin AllSubtasks(del.file.requests)}
    IN  (del.res.status = "subtask_deleted" /\ new.res.status = "subtasks_created") =>
          \A u \in created : SubtaskNumber(u.id) > SubtaskNumber(st.id)

\* add_tasks_to_request on a completed request is an error and leaves the
\* task file alone.
CompletedRejectsTasks ==
  \A req \in Requests : \A tasks \in Wide.taskLists :
    req.completed =>
      LET add == Then(Now, AddTasksToRequest(Loaded, req.requestId, tasks))
      IN  add.res.status = "error" /\ add.file = file

\* No call takes completed away from a request that is still there after it.
CompletedStays ==
  \A req \in Requests : \A q \in Range(file'.requests) :
    (req.completed /\ q.requestId = req.requestId) => q.completed

\* C20: a completed request rejects add_tasks_to_request with its task list
\* unchanged, and it stays completed for as long as it exists.
CompletedIsFinal == [](CompletedRejectsTasks) /\ [][CompletedStays]_vars

\* A completed request with room for another task, which add_tasks_to_request
\* refuses.
CompletedRequestRefusesReached ==
  \E req \in Requests :
    /\ req.completed
    /\ Len(req.tasks) < MaxTaskNum
    /\ AddTasksToRequest(Loaded, req.requestId, <<TaskDef>>).res.message =
         "Cannot add tasks to completed request"

\* C11: no two subtasks of a task have the same content when letter case is
\* ignored.
UniqueContentInTask ==
  \A t \in Tasks : \A i, j \in 1..Len(t.subtasks) :
    i # j => ToLowerCase(t.subtasks[i].content) # ToLowerCase(t.subtasks[j].content)

\* The subtasks of the task with id taskId in the task file f.
SubtasksOf(f, taskId) ==
  {st \in AllSubtasks(f.requests) : \E t \in AllTasks(f.requests) :
      t.id = taskId /\ st \in Range(t.subtasks)}

\* C12: on a task with no subtask "fix bug" in any letter case, a create with
\* content "Fix bug" succeeds, and a following create with content "fix bug "
\* is rejected as a duplicate and stores nothing: the task holds "Fix bug"
\* once and no "fix bug ".
FixBugScenario ==
  \A t \in Tasks :
    (\A st \in Range(t.subtasks) : ToLowerCase(st.content) # "fix bug") =>
      LET first == ThenTool(Now, SubtaskCall(t.id, "create", <<Item("Fix bug", "")>>,
                                             NoId, "", ""))
          second == ThenTool(first, SubtaskCall(t.id, "create", <<Item("fix bug ", "")>>,
                                                NoId, "", ""))
          stored == {st \in SubtasksOf(second.file, t.id) :
                       ToLowerCase(Trim(st.content)) = "fix bug"}
      IN  /\ first.res.status = "subtasks_created"
          /\ second.res.status = "error"
          /\ second.res.code = "VALIDATION_FAILED"
          /\ second.file = first.file
          /\ Cardinality(stored) = 1
          /\ \A st \in stored : st.content = "Fix bug"

\* The task holds "Fix bug" beside another subtask, and a create with
\* "fix bug " on it is refused.
FixBugScenarioReached ==
  \E t \in Tasks :
    /\ Len(t.subtasks) >= 2
    /\ \E st \in Range(t.subtasks) : st.content = "Fix bug"
    /\ Tool(SubtaskCall(t.id, "create", <<Item("fix bug ", "")>>, NoId, "", "")).res.code
         = "VALIDATION_FAILED"

\* The results that report a not-found, precondition, validation or
\* transition failure.
Failed(res) == res.status \in {"error", "subtasks_incomplete", "task_not_found"}

\* What the methods other than manageSubtasks that can change the document
\* compute in the current state, and the arguments of the manage_subtasks
\* calls, both with arguments drawn as L says and with ids one past the ids L
\* allows.
TaskOutcomes(L) ==
  LET rs == 1..(L.maxRequests + 1)
      ts == {TaskId(n, k) : n \in 1..L.maxRequests, k \in 1..(L.maxTaskNum + 1)}
  IN  {RequestPlanning(Loaded, tasks) : tasks \in L.taskLists}
      \cup {MarkTaskDone(Loaded, r, t) : r \in rs, t \in ts}
      \cup {ApproveTaskCompletion(Loaded, r, t) : r \in rs, t \in ts}
      \cup {ApproveRequestCompletion(Loaded, r) : r \in rs}
      \cup {AddTasksToRequest(Loaded, r, tasks) : r \in rs, tasks \in L.taskLists}
      \cup {UpdateTask(Loaded, r, t, u.title, u.description) :
              r \in rs, t \in ts, u \in L.taskUpdates}
      \cup {DeleteTask(Loaded, r, t) : r \in rs, t \in ts}
      \cup {ClearAllTasks(Loaded)}

SubtaskCalls(L) ==
  LET ts == {TaskId(n, k) : n \in 1..L.maxRequests, k \in 1..(L.maxTaskNum + 1)}
      ms == 1..(L.maxSubtaskNum + 1)
  IN  {SubtaskCall(t, a, b, NoId, "", "") :
         t \in ts, a \in {"create", "break_down"}, b \in L.batches}
      \cup {SubtaskCall(t, "update", <<>>, SubtaskId(t, m), u.content, u.status) :
              t \in ts, m \in ms, u \in L.subtaskUpdates}
      \cup {SubtaskCall(t, a, <<>>, SubtaskId(t, m), "", "") :
              t \in ts, a \in {"complete", "delete"}, m \in ms}

\* The effects of these calls when no file-system fault occurs.
Attempts(L) ==
  {Then(Now, out) : out \in TaskOutcomes(L)} \cup {Tool(args) : args \in SubtaskCalls(L)}

\* A call that reports a failure leaves the task file as it is.
FailuresChangeNothing ==
  \A eff \in Attempts(Content) : Failed(eff.res) => eff.file = file

\* Item i of the batch b has white space for content, or the content, trimmed
\* and in lower case, of an earlier item of b or of a subtask in stored.
Unacceptable(b, i, stored) ==
  \/ Trim(b[i].content) = ""
  \/ \E j \in 1..(i - 1) : ToLowerCase(Trim(b[j].content)) = ToLowerCase(Trim(b[i].content))
  \/ \E st \in stored : ToLowerCase(st.content) = ToLowerCase(Trim(b[i].content))

\* An update of the subtask st that sends a content no sibling has together
\* with a status st cannot move to is refused whole.
UpdateIsWhole ==
  \A t \in Tasks : \A st \in Range(t.subtasks) : \A s \in Statuses :
    LET eff == Tool(SubtaskCall(t.id, "update", <<>>, st.id, "fresh", s))
    IN  (s # st.status /\ s \notin TransitionTable[st.status]) =>
          Failed(eff.res) /\ eff.file = file

\* C16: a call that reports a failure leaves the task file as it is; a create
\* or break_down whose batch holds an invalid or duplicate item reports a
\* failure and stores none of its items; an update with a valid content and an
\* illegal status change stores neither.
FailuresAreAllOrNothing ==
  /\ FailuresChangeNothing
  /\ UpdateIsWhole
  /\ \A t \in Tasks : \A b \in Content.batches :
       LET create == Tool(SubtaskCall(t.id, "create", b, NoId, "", ""))
           breakDown == Tool(SubtaskCall(t.id, "break_down", b, NoId, "", ""))
       IN  /\ (\E i \in 1..Len(b) : Unacceptable(b, i, Range(t.subtasks))) =>
                Failed(create.res) /\ create.file = file
           /\ (\E i \in 1..Len(b) : Unacceptable(b, i, {})) =>
                Failed(breakDown.res) /\ breakDown.file = file

\* The faults under which saveTasks throws.
FailingSaves == {fault \in Faults : fault.save # "none"}

\* The manage_subtasks calls of the model's input set that get as far as
\* saveTasks in the current state.
SavingSubtaskCalls ==
  {args \in SubtaskCalls(Fault) :
     /\ ManageSubtasksSchema(args).success
     /\ ManageSubtasks(Loaded, ManageSubtasksSchema(args).data, clock).save}

\* The call args made in the current state under the fault.
ToolUnder(args, fault) ==
  ToolManageSubtasks(args, file, backups, requestCounter, taskCounter, clock, fault)

ExceptionsBecomeInternalError ==
  \A fault \in FailingSaves :
    /\ \A out \in TaskOutcomes(Fault) :
         out.save =>
           LET res == Completed(out, file, backups, fault).res
           IN  res.status = "error" /\ res.code = "INTERNAL_ERROR"
    /\ \A args \in SavingSubtaskCalls :
         LET res == ToolUnder(args, fault).res
         IN  res.status = "error" /\ res.code = "INTERNAL_ERROR"

\* C21: update_task and delete_task on a done task are errors that leave the
\* task file, and so the task's title, description and place in its request,
\* as they are; on a task that is not done update_task stores the new title
\* and description and delete_task takes the task out of its request.
DoneTaskIsFrozen ==
  \A i \in 1..Len(file.requests) : \A j \in 1..Len(file.requests[i].tasks) :
    \A u \in Wide.taskUpdates \cup {[title |-> "T3", description |-> "D3"]} :
      LET req == file.requests[i]
          t == req.tasks[j]
          update == Then(Now, UpdateTask(Loaded, req.requestId, t.id, u.title, u.description))
          delete == Then(Now, DeleteTask(Loaded, req.requestId, t.id))
      IN  IF t.done
          THEN /\ update.res.status = "error" /\ update.file = file
               /\ delete.res.status = "error" /\ delete.file = file
          ELSE /\ update.res.status = "task_updated"
               /\ update.file.requests =
                    [file.requests EXCEPT
                       ![i].tasks[j].title = IF u.title # "" THEN u.title ELSE @,
                       ![i].tasks[j].description =
                          IF u.description # "" THEN u.description ELSE @]
               /\ delete.res.status = "task_deleted"
               /\ delete.file.requests =
                    [file.requests EXCEPT ![i].tasks = RemoveAt(req.tasks, j)]

\* A request holds a done task whose title was changed before it was marked
\* done, beside a task that is not done.
FrozenTaskReached ==
  \E req \in Requests : \E t, u \in Range(req.tasks) :
    /\ t.done /\ t.title = "T2"
    /\ ~u.done

\* C22: the call that saved last wrote the document it computed from the text
\* it had read, whatever was saved between its read and its write: the last
\* writer wins.
LastWriterWins ==
  \A c \in Clients :
    LET call == inFlight.calls[c]
        out == RunOp(LoadTasks(call.read, 0, 0), call.op)
    IN  (inFlight.writer = c /\ call.pc = "returned" /\ call.read.exists /\ out.save) =>
          file = FileOf(out.data)

\* Two overlapping mark_task_done calls on two tasks have both answered
\* task_marked_done and the task file holds only the second one's task as done.
LostUpdateReached ==
  \E c, d \in Clients :
    LET first == inFlight.calls[c]
        second == inFlight.calls[d]
    IN  /\ c # d
        /\ inFlight.writer = d
        /\ first.pc = "returned" /\ first.res.status = "task_marked_done"
        /\ second.pc = "returned" /\ second.res.status = "task_marked_done"
        /\ first.op.taskId # second.op.taskId
        /\ \E t \in Tasks : t.id = first.op.taskId /\ ~t.done
        /\ \E t \in Tasks : t.id = second.op.taskId /\ t.done

\* C23: no task holds more than 50 subtasks.
AtMostFiftySubtasks == \A t \in Tasks : Len(t.subtasks) <= MaxBatch

\* C24: the tasks request_planning stores for the request req-N have the ids
\* req-N-task-1, req-N-task-2, ... in order, and manage_subtasks finds each
\* of them under that id.
PlannedTaskIds ==
  \A tasks \in Wide.taskLists :
    LET plan == Then(Now, RequestPlanning(Loaded, tasks))
        n == plan.res.requestId
        req == plan.file.requests[Len(plan.file.requests)]
        Expected(k) == "req-" \o ToString(n) \o "-task-" \o ToString(k)
        Lookup(k) == ThenTool(plan, SubtaskCall(TaskIdOfText(plan.file.requests, Expected(k)),
                                                "create", <<Item("a", "")>>, NoId, "", ""))
    IN  /\ Len(req.tasks) = Len(tasks)
        /\ \A k \in 1..Len(tasks) :
             /\ TaskIdText(req.tasks[k].id) = Expected(k)
             /\ Lookup(k).res.code # "TASK_NOT_FOUND"
             /\ Lookup(k).res.taskId = req.tasks[k].id

\* A call leaves done and approved set on every task that is still there
\* after it.
FlagsStay ==
  \A t \in Tasks : \A u \in AllTasks(file'.requests) :
    u.id = t.id => /\ t.done => u.done
                   /\ t.approved => u.approved

\* C25: done and approved of a task never go from true back to false while
\* the task exists, whatever the calls: reopening its subtasks, breaking it
\* down or adding tasks to its request included.
FlagsNeverReset == [][FlagsStay]_vars

\* A done and approved task with a reopened subtask, in a request that got a
\* task after it.
ReopenedUnderDoneReached ==
  \E req \in Requests : \E t, u \in Range(req.tasks) :
    /\ t.done /\ t.approved
    /\ \E s \in Range(t.subtasks) : s.status = "pending"
    /\ ~u.done /\ TaskNumber(u.id) > TaskNumber(t.id)

\* C26: every stored request holds at least one task: request_planning does
\* not store a request for an empty task list, and no delete_task leaves a
\* request without tasks.
EveryRequestHasTasks ==
  /\ \A req \in Requests : Len(req.tasks) >= 1
  /\ LET plan == Then(Now, RequestPlanning(Loaded, <<>>))
     IN  plan.res.status # "planned" /\ plan.file = file

\* Two task definitions that differ, so that their order shows.
TwoTaskDefs ==
  <<[title |-> "T1", description |-> "D1"], [title |-> "T2", description |-> "D2"]>>

\* The tasks at places first..last of a list are the definitions defs in
\* their order, numbered from + 1, from + 2, ...
NumberedFrom(tasks, first, defs, from) ==
  /\ Len(tasks) = first - 1 + Len(defs)
  /\ \A k \in 1..Len(defs) :
       /\ TaskNumber(tasks[first - 1 + k].id) = from + k
       /\ tasks[first - 1 + k].title = defs[k].title
       /\ tasks[first - 1 + k].description = defs[k].description

\* C27: request_planning numbers the tasks of the new request 1..n in the
\* order given; add_tasks_to_request keeps the tasks of the request, appends
\* the new ones in the order given and numbers them from the greatest task
\* number of the request plus one (from 1 when the request has no tasks).
TaskNumbering ==
  /\ LET plan == Then(Now, RequestPlanning(Loaded, TwoTaskDefs))
     IN  NumberedFrom(plan.file.requests[Len(plan.file.requests)].tasks, 1, TwoTaskDefs, 0)
  /\ \A i \in 1..Len(file.requests) :
       LET req == file.requests[i]
           add == Then(Now, AddTasksToRequest(Loaded, req.requestId, TwoTaskDefs))
           after == add.file.requests[i].tasks
           numbers == {TaskNumber(t.id) : t \in Range(req.tasks)}
           from == IF numbers = {} THEN 0
                   ELSE CHOOSE m \in numbers : \A n \in numbers : n <= m
       IN  ~req.completed =>
             /\ add.res.status = "tasks_added"
             /\ SubSeq(after, 1, Len(req.tasks)) = req.tasks
             /\ NumberedFrom(after, Len(req.tasks) + 1, TwoTaskDefs, from)

\* A request that is not completed holds task 2 alone, task 1 deleted: the
\* next number is 3, one more than 2 and not one more than the count.
NumberingGapReached ==
  \E req \in Requests :
    /\ ~req.completed
    /\ Len(req.tasks) = 1
    /\ TaskNumber(req.tasks[1].id) = 2
    /\ AddTasksToRequest(Loaded, req.requestId, TwoTaskDefs).res.status = "tasks_added"

\* C28: after loadTasks the request counter is the greatest request number of
\* the loaded document and the subtask counter its greatest subtask number, 0
\* when there is none, also when the task file is absent or cannot be parsed
\* and the document starts empty.
CountersFollowDocument ==
  LET ld == Loaded
  IN  /\ ld.requestCounter = MaxOrZero({r.requestId : r \in Range(ld.data)})
      /\ ld.taskCounter = MaxOrZero({SubtaskNumber(st.id) : st \in AllSubtasks(ld.data)})

\* C29: a mark_task_done that answers subtasks_incomplete reports
\* round(100 * completed / total) over the task's subtasks as
\* completionPercentage and the number of subtasks that are not completed as
\* remainingSubtasks, and leaves the task file, and so done, as it is.
IncompleteReport ==
  \A req \in Requests : \A t \in Range(req.tasks) :
    LET mark == Then(Now, MarkTaskDone(Loaded, req.requestId, t.id))
        open == {i \in 1..Len(t.subtasks) : t.subtasks[i].status # "completed"}
    IN  mark.res.status = "subtasks_incomplete" =>
          /\ mark.res.completionPercentage =
               RoundedPercentage(Len(t.subtasks) - Cardinality(open), Len(t.subtasks))
          /\ mark.res.remainingSubtasks = Cardinality(open)
          /\ mark.file = file

\* C30: get_next_task on a stored request answers already_completed exactly
\* when the request is completed, all_tasks_done exactly when it is not
\* completed and none of its tasks has done false, and otherwise next_task
\* with the first task, in the order of the request, that has done false; it
\* leaves the task file as it is.
NextTaskContract ==
  \A i \in 1..Len(file.requests) :
    LET req == file.requests[i]
        next == Then(Now, GetNextTask(Loaded, req.requestId))
        open == {j \in 1..Len(req.tasks) : ~req.tasks[j].done}
    IN  /\ next.file = file
        /\ next.res.status \in {"already_completed", "all_tasks_done", "next_task"}
        /\ next.res.status = "already_completed" <=> req.completed
        /\ next.res.status = "all_tasks_done" <=> (~req.completed /\ open = {})
        /\ next.res.status = "next_task" =>
             /\ next.res.taskId \in {req.tasks[j].id : j \in open}
             /\ \A j \in open : req.tasks[j].id = next.res.taskId => \A k \in open : j <= k

\* A request that is not completed, whose first task is done and whose
\* second task is the one get_next_task answers.
NextTaskAnswersReached ==
  \E req \in Requests :
    /\ ~req.completed
    /\ Len(req.tasks) = 2
    /\ req.tasks[1].done /\ ~req.tasks[2].done
    /\ GetNextTask(Loaded, req.requestId).res.taskId = req.tasks[2].id

\* The places of the tasks and of the subtasks of a document.
TaskPlaces(reqs) ==
  UNION {{<<i, j>> : j \in 1..Len(reqs[i].tasks)} : i \in 1..Len(reqs)}
SubtaskPlaces(reqs) ==
  UNION {{<<p[1], p[2], k>> : k \in 1..Len(reqs[p[1]].tasks[p[2]].subtasks)} :
           p \in TaskPlaces(reqs)}

\* C31: the request ids of the document are pairwise distinct, its task ids
\* are pairwise distinct across all requests and its subtask ids are pairwise
\* distinct across the whole document (subtask ids all coming from
\* generateSubtaskId).
IdentifiersAreUnique ==
  LET reqs == file.requests
  IN  /\ \A i, j \in 1..Len(reqs) :
           reqs[i].requestId = reqs[j].requestId => i = j
      /\ \A p, q \in TaskPlaces(reqs) :
           TaskIdText(reqs[p[1]].tasks[p[2]].id) = TaskIdText(reqs[q[1]].tasks[q[2]].id) => p = q
      /\ \A p, q \in SubtaskPlaces(reqs) :
           reqs[p[1]].tasks[p[2]].subtasks[p[3]].id =
             reqs[q[1]].tasks[q[2]].subtasks[q[3]].id => p = q

\* Two requests, each with a task that has subtasks, one of them with two.
TwoRequestsWithSubtasksReached ==
  /\ Len(file.requests) = 2
  /\ \A i \in 1..2 : \E t \in Range(file.requests[i].tasks) : Len(t.subtasks) >= 1
  /\ \E t \in Tasks : Len(t.subtasks) = 2

\* C32: a task carries a completionPercentage exactly when it has at least
\* one subtask (none when it never had subtasks or when its last subtask was
\* deleted), and the value is an integer from 0 to 100.
PercentageIffSubtasks ==
  \A t \in Tasks :
    /\ t.completionPercentage # NoPct <=> Len(t.subtasks) >= 1
    /\ t.completionPercentage # NoPct => t.completionPercentage \in 0..100

\* A call leaves every request of the task file in it.
RequestsStay ==
  \A req \in Requests : \E q \in Range(file'.requests) : q.requestId = req.requestId

\* C33: a request is never deleted: whatever the calls, the id of a request
\* that request_planning stored stays in the task file.
RequestsAreNeverDeleted == [][RequestsStay]_vars

\* The number open_task_details, mark_task_done, create and break_down report
\* for a subtask: index + 1 in the array of the task.
PositionNumber(subtaskId, taskSubtasks) == FindSubtask(taskSubtasks, subtaskId)

\* In every task of a document the number by position and the number by
\* createdAt agree for every subtask.
NumbersAgree(reqs) ==
  \A t \in AllTasks(reqs) :
    /\ SortByCreatedAt(t.subtasks) = t.subtasks
    /\ \A st \in Range(t.subtasks) :
         PositionNumber(st.id, t.subtasks) = GetSubtaskDisplayNumber(st.id, t.subtasks)

\* C34: the display number by array position (open_task_details,
\* mark_task_done, create, break_down) of a subtask equals its rank among the
\* subtasks of its task sorted by createdAt with ties in insertion order (the
\* number of update and complete), in the task file and after every create
\* and break_down on it.
DisplayNumbersAgree ==
  /\ NumbersAgree(file.requests)
  /\ \A t \in Tasks : \A b \in Timed.batches : \A action \in {"create", "break_down"} :
       NumbersAgree(ThenTool(Now, SubtaskCall(t.id, action, b, NoId, "", "")).file.requests)

\* A task holds a subtask made at one time and then two made together at a
\* later time.
TiedAndLaterSubtasksReached ==
  \E t \in Tasks :
    /\ Len(t.subtasks) = 3
    /\ t.subtasks[1].createdAt < t.subtasks[2].createdAt
    /\ t.subtasks[2].createdAt = t.subtasks[3].createdAt

\* C35: every done task, and so every approved task and every task of a
\* completed request, has only completed subtasks.
DoneTaskHasOnlyCompletedSubtasks ==
  \A req \in Requests : \A t \in Range(req.tasks) :
    (t.done \/ t.approved \/ req.completed) =>
      \A st \in Range(t.subtasks) : st.status = "completed"

\* The document differs from before at most in request i.
OnlyRequestChanged(before, after, i) ==
  /\ Len(after) = Len(before)
  /\ \A k \in 1..Len(before) : k # i => after[k] = before[k]

\* The document differs from before at most in the task at place j of request i.
OnlyTaskChanged(before, after, i, j) ==
  /\ OnlyRequestChanged(before, after, i)
  /\ [after[i] EXCEPT !.tasks = before[i].tasks] = before[i]
  /\ Len(after[i].tasks) = Len(before[i].tasks)
  /\ \A k \in 1..Len(before[i].tasks) : k # j => after[i].tasks[k] = before[i].tasks[k]

\* The document differs from before at most in the subtasks and the
\* completionPercentage of the task at place j of request i.
OnlySubtasksChanged(before, after, i, j) ==
  /\ OnlyTaskChanged(before, after, i, j)
  /\ [after[i].tasks[j] EXCEPT
        !.hasSubtasks = before[i].tasks[j].hasSubtasks,
        !.subtasks = before[i].tasks[j].subtasks,
        !.completionPercentage = before[i].tasks[j].completionPercentage]
       = before[i].tasks[j]

\* The document is the one before without the task at place j of request i.
OnlyTaskRemoved(before, after, i, j) ==
  /\ OnlyRequestChanged(before, after, i)
  /\ after[i] = [before[i] EXCEPT !.tasks = RemoveAt(before[i].tasks, j)]

\* The manage_subtasks calls made on a task in SpecFrame's checks.
FrameSubtaskCalls(t) ==
  {SubtaskCall(t.id, action, b, NoId, "", "") :
     action \in {"create", "break_down"}, b \in Frame.batches}
  \cup {SubtaskCall(t.id, "update", <<>>, st.id, u.content, u.status) :
          st \in Range(t.subtasks), u \in Frame.subtaskUpdates}
  \cup {SubtaskCall(t.id, action, <<>>, st.id, "", "") :
          action \in {"complete", "delete"}, st \in Range(t.subtasks)}

\* C36: a call that changes the task file changes only what it addresses: a
\* subtask action the subtasks and completionPercentage of its task;
\* mark_task_done, approve_task_completion and update_task their task;
\* delete_task removes its task; add_tasks_to_request and
\* approve_request_completion change their request; every other request,
\* task and subtask of the file stays as it is.
FrameOfCalls ==
  LET before == file.requests
      Wrote(eff) == eff.file # file
  IN  \A i \in 1..Len(before) :
        LET r == before[i].requestId
            add == Then(Now, AddTasksToRequest(Loaded, r, <<TaskDef>>))
            approve == Then(Now, ApproveRequestCompletion(Loaded, r))
        IN  /\ Wrote(add) => OnlyRequestChanged(before, add.file.requests, i)
            /\ Wrote(approve) => OnlyRequestChanged(before, approve.file.requests, i)
            /\ \A j \in 1..Len(before[i].tasks) :
                 LET t == before[i].tasks[j]
                     mark == Then(Now, MarkTaskDone(Loaded, r, t.id))
                     ok == Then(Now, ApproveTaskCompletion(Loaded, r, t.id))
                     update == Then(Now, UpdateTask(Loaded, r, t.id, "T2", "D2"))
                     delete == Then(Now, DeleteTask(Loaded, r, t.id))
                 IN  /\ Wrote(mark) => OnlyTaskChanged(before, mark.file.requests, i, j)
                     /\ Wrote(ok) => OnlyTaskChanged(before, ok.file.requests, i, j)
                     /\ Wrote(update) => OnlyTaskChanged(before, update.file.requests, i, j)
                     /\ Wrote(delete) => OnlyTaskRemoved(before, delete.file.requests, i, j)
                     /\ \A args \in FrameSubtaskCalls(t) :
                          Wrote(ThenTool(Now, args)) =>
                            OnlySubtasksChanged(before, ThenTool(Now, args).file.requests, i, j)

\* Two requests of two tasks: the first has all its tasks done and approved
\* and can be approved; in the second, one task is done and can be approved
\* and the other holds a subtask.
FrameCasesReached ==
  /\ Len(file.requests) = 2
  /\ ApproveRequestCompletion(Loaded, file.requests[1].requestId).res.status =
       "request_approved_complete"
  /\ \E t, u \in Range(file.requests[2].tasks) :
       /\ t.done /\ ~t.approved
       /\ ~u.done /\ Len(u.subtasks) = 1

\* C37: the display number a successful delete reports is the rank the
\* deleted subtask had among the subtasks of its task, sorted by createdAt
\* with ties in insertion order, just before the deletion.
DeleteReportsFormerRank ==
  \A t \in Tasks : \A st \in Range(t.subtasks) :
    LET del == ThenTool(Now, SubtaskCall(t.id, "delete", <<>>, st.id, "", ""))
    IN  del.res.status = "subtask_deleted" =>
          del.res.displayNumber = GetSubtaskDisplayNumber(st.id, t.subtasks)

\* C38: a manage_subtasks call that fails and restores its snapshot loses
\* nothing that another call saved between the snapshot and the rollback:
\* every task the file holds as done is still done after the rollback.
RollbackIsIsolated ==
  \A c \in Clients :
    inFlight.calls[c].pc = "backed_up" =>
      LET call == inFlight.calls[c]
          eff == AfterBackup(call, RefusedSave)
      IN  eff.res.code = "INTERNAL_ERROR" =>
            \A t \in Tasks : t.done =>
              \E u \in AllTasks(eff.file.requests) : u.id = t.id /\ u.done

\* Every request of the task file is completed.
AllCompleted == \A req \in Requests : req.completed

\* The statement with the workflow calls it lists: when pending subtasks are
\* started and in_progress subtasks completed under weak fairness, every
\* request gets completed.
WorkflowCompletes == (FairStart /\ FairComplete) => <>[]AllCompleted

\* C39: under weak fairness of the workflow calls (pending subtasks to
\* in_progress, in_progress subtasks completed, tasks marked done, done
\* tasks approved, the request approved) and of the restart of cancelled
\* subtasks to pending, with no task added, no subtask reopened and no save
\* failing any more, every planned request gets completed.
WorkflowWithRestartCompletes ==
  (FairStart /\ FairComplete /\ FairRestart) => <>[]AllCompleted

\* A completed request with a task whose subtask was taken to completed.
WorkedRequestReached ==
  \E req \in Requests :
    /\ req.completed
    /\ \E t \in Range(req.tasks) :
         Len(t.subtasks) >= 1 /\ \A st \in Range(t.subtasks) : st.status = "completed"

\* C40: every snapshot a manage_subtasks call makes is removed by the time the
\* call returns, whether it succeeded, found nothing or rejected its input:
\* no call leaves a backup copy of the task file that was not there before
\* it, so the backup copies do not grow with the calls.
SnapshotsAreRemoved == [][backups' \subseteq backups]_vars

====
